---- MODULE Spec2Model ----
(***************************************************************************)
(* Model of the STM32 ADC core driver, drivers/iio/adc/stm32-adc-core.c:   *)
(* the clock selection routines, the chained interrupt handler that        *)
(* demultiplexes the common status register, and the power sequencing     *)
(* (hw_start / hw_stop) with the probe / remove / runtime PM lifecycle.    *)
(***************************************************************************)
EXTENDS Integers, Sequences, FiniteSets, TLC

VARIABLES
    cfg,          \* resources found by probe: variant, clocks, regulators, syscfg cells
    ccr,          \* hardware common control register (CCR)
    common_rate,  \* priv->common.rate
    clk_call,     \* record of the last clock selection call (inputs, return, plan)
    csr,          \* hardware common status register (CSR)
    ier,          \* EOCIE bit of each ADC instance's interrupt enable register
    h_pc,         \* position of the chained handler: 0 idle, 1..6 its checks, 7 exit
    h_status,     \* the handler's local: status
    h_en,         \* what stm32_adc_eoc_enabled() returned per instance (-1: not called)
    delivered,    \* hwirq numbers handed to generic_handle_irq(), in order
    mp,           \* the handler invocations per physical line: position, status
                  \* read, lines delivered to; dispatches and completions made
    en,           \* per regulator and clock: enables minus disables made by the core
    booster,      \* EN_BOOSTER bit in SYSCFG
    anasw,        \* ANASWVDD bit in SYSCFG
    ccr_bak,      \* priv->ccr_bak
    pm,           \* "unbound", or the runtime PM status "active" / "suspended"
    saved,        \* CCR as it was when hw_stop last read it (-1: no hw_stop yet)
    start_fails,  \* failed hw_start calls since the last hw_stop
    lost,         \* CCR changed its content since the last hw_stop
    start_call,   \* the last hw_start call: inputs, return value, log
    stop_call,    \* the last hw_stop call: log
    probe_call,   \* the last probe call: the step that failed, return value
    probes,       \* number of probe calls made
    irq,          \* priv->irq[]
    domain,       \* priv->domain exists
    chained,      \* per physical line: the chained handler is installed
    children,     \* the child ADC devices are populated
    td,           \* priv->domain as a pointer, and what the teardown calls did with it
    life          \* the calls the last probe or remove made, in order, each with
                  \* the state it was made in

clkvars == <<ccr, common_rate, clk_call>>
irqvars == <<csr, ier, h_pc, h_status, h_en, delivered, mp>>
pwrvars == <<en, booster, anasw, ccr_bak, pm, saved, start_fails, lost,
             start_call, stop_call, probe_call, probes,
             irq, domain, chained, children, td, life>>
vars == <<cfg, clkvars, irqvars, pwrvars>>

(***************************************************************************)
(* Bounds of the model.                                                    *)
(***************************************************************************)
\* clock rates offered by the clock provider: multiples of RateUnit up to this
MaxRateMul == 16

\* number of calls of the interrupt demultiplexer teardown
MaxTeardowns == 2

\* number of flags that can be set at once in the status register
MaxStatusBits == 2

\* number of conversions that complete, and of handler invocations, when the
\* handlers of several physical lines run
MaxCompletions == 1
MaxDispatches == 2

\* number of times the driver is bound to the device
MaxProbes == 1

\* number of failed runtime resumes between a suspend and the next success
MaxStartFails == 1

RateUnit == 18 * 1000000

(***************************************************************************)
(* errno values returned by the driver.                                    *)
(***************************************************************************)
ENOENT == 2
EINVAL == 22
ENXIO == 6
ENOMEM == 12
ENODEV == 19

(***************************************************************************)
(* Bit operations on register values (naturals below 2^31).                *)
(***************************************************************************)
RECURSIVE BitAnd(_, _)
BitAnd(a, b) ==
    IF a = 0 \/ b = 0 THEN 0
    ELSE (a % 2) * (b % 2) + 2 * BitAnd(a \div 2, b \div 2)

RECURSIVE BitOr(_, _)
BitOr(a, b) ==
    IF a = 0 THEN b
    ELSE IF b = 0 THEN a
    ELSE (IF a % 2 = 1 \/ b % 2 = 1 THEN 1 ELSE 0) + 2 * BitOr(a \div 2, b \div 2)

\* a & ~m
BitClear(a, m) == a - BitAnd(a, m)

BIT(n) == 2 ^ n

\* GENMASK(h, l): bits l..h set
GENMASK(h, l) == (2 ^ (h + 1)) - (2 ^ l)

Max(S) == CHOOSE x \in S : \A y \in S : y <= x

Min(S) == CHOOSE x \in S : \A y \in S : x <= y

(***************************************************************************)
(* CCR clock fields.                                                       *)
(***************************************************************************)
STM32F4_ADC_ADCPRE_SHIFT == 16
STM32F4_ADC_ADCPRE_MASK == GENMASK(17, 16)
STM32H7_PRESC_SHIFT == 18
STM32H7_PRESC_MASK == GENMASK(21, 18)
STM32H7_CKMODE_SHIFT == 16
STM32H7_CKMODE_MASK == GENMASK(17, 16)

(***************************************************************************)
(* Compatible data: the three variants and their maximum clock rate.       *)
(***************************************************************************)
Variants == {"stm32f4", "stm32h7", "stm32mp1"}

max_clk_rate_hz(variant) ==
    IF variant = "stm32mp1" THEN 40000000 ELSE 36000000

has_syscfg_clr(variant) == variant = "stm32mp1"

(***************************************************************************)
(* Clock selection.                                                        *)
(***************************************************************************)
\* STM32F4 ADC internal common clock prescaler division ratios
stm32f4_pclk_div == <<2, 4, 6, 8>>

\* {ckmode, presc, div}: asynchronous modes first, then synchronous (HCLK)
stm32h7_adc_ckmodes_spec == <<
    [ckmode |-> 0, presc |-> 0,  div |-> 1],
    [ckmode |-> 0, presc |-> 1,  div |-> 2],
    [ckmode |-> 0, presc |-> 2,  div |-> 4],
    [ckmode |-> 0, presc |-> 3,  div |-> 6],
    [ckmode |-> 0, presc |-> 4,  div |-> 8],
    [ckmode |-> 0, presc |-> 5,  div |-> 10],
    [ckmode |-> 0, presc |-> 6,  div |-> 12],
    [ckmode |-> 0, presc |-> 7,  div |-> 16],
    [ckmode |-> 0, presc |-> 8,  div |-> 32],
    [ckmode |-> 0, presc |-> 9,  div |-> 64],
    [ckmode |-> 0, presc |-> 10, div |-> 128],
    [ckmode |-> 0, presc |-> 11, div |-> 256],
    [ckmode |-> 1, presc |-> 0,  div |-> 1],
    [ckmode |-> 2, presc |-> 0,  div |-> 2],
    [ckmode |-> 3, presc |-> 0,  div |-> 4] >>

\* the plan of a failed selection
NoPlan == [src |-> "none", ckmode |-> 0, presc |-> 0, div |-> 0, idx |-> 0]

\* mutant: a failed selection publishes a rate of 0
ClkFail_reset(err, rate0, ccr0) ==
    [ret |-> -err, rate |-> 0, ccr |-> ccr0, plan |-> NoPlan]

\* result of a failed selection: nothing written
ClkFail(err, rate0, ccr0) ==
    [ret |-> -err, rate |-> rate0, ccr |-> ccr0, plan |-> NoPlan]

\* for (i = 0; i < ARRAY_SIZE(stm32f4_pclk_div); i++)
\*     if ((rate / stm32f4_pclk_div[i]) <= priv->max_clk_rate) break;
\* the value of i after the loop (ARRAY_SIZE when no entry matches), 0-based
stm32f4_scan(rate, max) ==
    LET hit == {i \in 0..(Len(stm32f4_pclk_div) - 1) :
                    (rate \div stm32f4_pclk_div[i + 1]) <= max}
    IN  IF hit = {} THEN Len(stm32f4_pclk_div) ELSE Min(hit)

\* mutant: a zero rate is reported like a missing clock
stm32f4_adc_clk_sel_zero_enoent(in, rate0, ccr0) ==
    IF ~in.aclk THEN ClkFail(ENOENT, rate0, ccr0)
    ELSE IF in.arate = 0 THEN ClkFail(ENOENT, rate0, ccr0)
    ELSE LET i == stm32f4_scan(in.arate, in.max) IN
         IF i >= Len(stm32f4_pclk_div) THEN ClkFail(EINVAL, rate0, ccr0)
         ELSE [ret  |-> 0,
               rate |-> in.arate \div stm32f4_pclk_div[i + 1],
               ccr  |-> BitOr(BitClear(ccr0, STM32F4_ADC_ADCPRE_MASK),
                              i * (2 ^ STM32F4_ADC_ADCPRE_SHIFT)),
               plan |-> [src |-> "aclk", ckmode |-> 0, presc |-> i,
                         div |-> stm32f4_pclk_div[i + 1], idx |-> i]]

\* in: [aclk, arate, bclk, brate, max]; rate0, ccr0: common.rate and CCR before
stm32f4_adc_clk_sel(in, rate0, ccr0) ==
    IF ~in.aclk THEN ClkFail(ENOENT, rate0, ccr0)
    ELSE IF in.arate = 0 THEN ClkFail(EINVAL, rate0, ccr0)
    ELSE LET i == stm32f4_scan(in.arate, in.max) IN
         IF i >= Len(stm32f4_pclk_div) THEN ClkFail(EINVAL, rate0, ccr0)
         ELSE [ret  |-> 0,
               rate |-> in.arate \div stm32f4_pclk_div[i + 1],
               ccr  |-> BitOr(BitClear(ccr0, STM32F4_ADC_ADCPRE_MASK),
                              i * (2 ^ STM32F4_ADC_ADCPRE_SHIFT)),
               plan |-> [src |-> "aclk", ckmode |-> 0, presc |-> i,
                         div |-> stm32f4_pclk_div[i + 1], idx |-> i]]

\* mutant: the scan keeps the last fitting entry instead of the first
stm32h7_scan_last(rate, max, async) ==
    LET hit == {i \in 1..Len(stm32h7_adc_ckmodes_spec) :
                    /\ (stm32h7_adc_ckmodes_spec[i].ckmode = 0) = async
                    /\ (rate \div stm32h7_adc_ckmodes_spec[i].div) <= max}
    IN  IF hit = {} THEN 0 ELSE CHOOSE x \in hit : \A y \in hit : y <= x

\* one scanning loop over stm32h7_adc_ckmodes_spec: the first index (1-based)
\* with the wanted kind of ckmode whose divided rate fits, 0 when none does
stm32h7_scan(rate, max, async) ==
    LET hit == {i \in 1..Len(stm32h7_adc_ckmodes_spec) :
                    /\ (stm32h7_adc_ckmodes_spec[i].ckmode = 0) = async
                    /\ (rate \div stm32h7_adc_ckmodes_spec[i].div) <= max}
    IN  IF hit = {} THEN 0 ELSE Min(hit)

\* mutant: the new field values are or-ed in without clearing the old ones
stm32h7_out_noclear(src, rate, i, ccr0) ==
    LET e == stm32h7_adc_ckmodes_spec[i] IN
    [ret  |-> 0,
     rate |-> rate \div e.div,
     ccr  |-> BitOr(BitOr(ccr0, e.ckmode * (2 ^ STM32H7_CKMODE_SHIFT)),
                    e.presc * (2 ^ STM32H7_PRESC_SHIFT)),
     plan |-> [src |-> src, ckmode |-> e.ckmode, presc |-> e.presc,
               div |-> e.div, idx |-> i - 1]]

\* the code at label out: publish the rate, read-modify-write CCR
stm32h7_out(src, rate, i, ccr0) ==
    LET e == stm32h7_adc_ckmodes_spec[i] IN
    [ret  |-> 0,
     rate |-> rate \div e.div,
     ccr  |-> BitOr(BitOr(BitClear(ccr0, BitOr(STM32H7_CKMODE_MASK,
                                               STM32H7_PRESC_MASK)),
                          e.ckmode * (2 ^ STM32H7_CKMODE_SHIFT)),
                    e.presc * (2 ^ STM32H7_PRESC_SHIFT)),
     plan |-> [src |-> src, ckmode |-> e.ckmode, presc |-> e.presc,
               div |-> e.div, idx |-> i - 1]]

\* the synchronous part, reached when the async scan did not jump to out
stm32h7_sync(in, rate0, ccr0) ==
    IF in.brate = 0 THEN ClkFail(EINVAL, rate0, ccr0)
    ELSE LET j == stm32h7_scan(in.brate, in.max, FALSE) IN
         IF j = 0 THEN ClkFail(EINVAL, rate0, ccr0)
         ELSE stm32h7_out("bclk", in.brate, j, ccr0)

\* mutant: no fall back to the bus clock when no asynchronous entry fits
stm32h7_adc_clk_sel_nofallback(in, rate0, ccr0) ==
    IF ~in.bclk THEN ClkFail(ENOENT, rate0, ccr0)
    ELSE IF in.aclk
         THEN IF in.arate = 0 THEN ClkFail(EINVAL, rate0, ccr0)
              ELSE LET i == stm32h7_scan(in.arate, in.max, TRUE) IN
                   IF i # 0 THEN stm32h7_out("aclk", in.arate, i, ccr0)
                   ELSE ClkFail(EINVAL, rate0, ccr0)
         ELSE stm32h7_sync(in, rate0, ccr0)

\* mutant: the bus clock rate is validated before the analog clock is tried
stm32h7_adc_clk_sel_busfirst(in, rate0, ccr0) ==
    IF ~in.bclk THEN ClkFail(ENOENT, rate0, ccr0)
    ELSE IF in.brate = 0 THEN ClkFail(EINVAL, rate0, ccr0)
    ELSE IF in.aclk
         THEN IF in.arate = 0 THEN ClkFail(EINVAL, rate0, ccr0)
              ELSE LET i == stm32h7_scan(in.arate, in.max, TRUE) IN
                   IF i # 0 THEN stm32h7_out("aclk", in.arate, i, ccr0)
                   ELSE stm32h7_sync(in, rate0, ccr0)
         ELSE stm32h7_sync(in, rate0, ccr0)

\* mutant: an analog clock reporting zero is passed over for the bus clock
stm32h7_adc_clk_sel_zerofallback(in, rate0, ccr0) ==
    IF ~in.bclk THEN ClkFail(ENOENT, rate0, ccr0)
    ELSE IF in.aclk /\ in.arate # 0
         THEN LET i == stm32h7_scan(in.arate, in.max, TRUE) IN
              IF i # 0 THEN stm32h7_out("aclk", in.arate, i, ccr0)
              ELSE stm32h7_sync(in, rate0, ccr0)
         ELSE stm32h7_sync(in, rate0, ccr0)

stm32h7_adc_clk_sel(in, rate0, ccr0) ==
    IF ~in.bclk THEN ClkFail(ENOENT, rate0, ccr0)
    ELSE IF in.aclk
         THEN IF in.arate = 0 THEN ClkFail(EINVAL, rate0, ccr0)
              ELSE LET i == stm32h7_scan(in.arate, in.max, TRUE) IN
                   IF i # 0 THEN stm32h7_out("aclk", in.arate, i, ccr0)
                   ELSE stm32h7_sync(in, rate0, ccr0)
         ELSE stm32h7_sync(in, rate0, ccr0)

\* priv->cfg->clk_sel
clk_sel(variant, in, rate0, ccr0) ==
    IF variant = "stm32f4" THEN stm32f4_adc_clk_sel(in, rate0, ccr0)
    ELSE stm32h7_adc_clk_sel(in, rate0, ccr0)

\* st,max-clk-rate-hz: NoProp when the property is absent
NoProp == -1

\* priv->max_clk_rate as probe computes it
max_clk_rate(variant, dt) ==
    IF dt # NoProp
    THEN IF dt < max_clk_rate_hz(variant) THEN dt ELSE max_clk_rate_hz(variant)
    ELSE max_clk_rate_hz(variant)

(***************************************************************************)
(* Inputs of the clock selection: what the clock provider and the device   *)
(* tree can give.                                                          *)
(***************************************************************************)
Rates ==
    {0, 1, 80000000, 200000000}
        \cup {m * RateUnit + e : m \in 1..MaxRateMul, e \in {0, 1}}

DtMaxRates == {NoProp, 1000000, 36000000, 50000000}

CcrValues == {0, GENMASK(23, 0), BIT(23) + BIT(17) + BIT(8)}

\* what probe found: the compatible, the optional clocks and regulators, the
\* optional syscfg cells
Configs ==
    [variant : Variants, aclk : BOOLEAN, bclk : BOOLEAN,
     vdda : BOOLEAN, vdd : BOOLEAN,
     vbooster : BOOLEAN, vbooster_clr : BOOLEAN,
     anaswvdd : BOOLEAN, anaswvdd_clr : BOOLEAN]

NoSwitches(c) ==
    ~c.vdda /\ ~c.vdd /\ ~c.vbooster /\ ~c.vbooster_clr
        /\ ~c.anaswvdd /\ ~c.anaswvdd_clr

ClkConfigs == {c \in Configs : NoSwitches(c)}

\* priv->domain is NULL (devm_kzalloc) and stm32_adc_irq_remove was not called
NoTeardown ==
    [dom |-> "null", installs |-> 0, calls |-> 0, ops |-> << >>,
     fault |-> "none", first |-> << >>]

\* nothing is bound, nothing is enabled
PwrIdle ==
    /\ en = [r \in {"vdda", "vdd", "vref", "bclk", "aclk"} |-> 0]
    /\ booster = FALSE
    /\ anasw = FALSE
    /\ ccr_bak = 0
    /\ pm = "unbound"
    /\ saved = -1
    /\ start_fails = 0
    /\ lost = FALSE
    /\ start_call = [done |-> FALSE]
    /\ stop_call = [done |-> FALSE]
    /\ probe_call = [done |-> FALSE]
    /\ probes = 0
    /\ irq = [i \in 0..2 |-> 0]
    /\ domain = FALSE
    /\ chained = [i \in 0..2 |-> FALSE]
    /\ children = FALSE
    /\ td = NoTeardown
    /\ life = << >>

\* no handler was invoked on any physical line
NoMp ==
    [ctx |-> [p \in 0..2 |-> [pc |-> 0, status |-> 0, out |-> << >>,
                              ran |-> FALSE]],
     installed |-> FALSE, runs |-> 0, raised |-> 0]

IrqIdle ==
    /\ h_pc = 0
    /\ h_status = 0
    /\ h_en = [i \in 0..2 |-> -1]
    /\ delivered = << >>
    /\ mp = NoMp

ClkInit ==
    /\ cfg \in ClkConfigs
    /\ ccr \in CcrValues
    /\ common_rate \in {0, 12345}
    /\ clk_call = [done |-> FALSE]
    /\ csr = 0
    /\ ier = [i \in 0..2 |-> FALSE]
    /\ IrqIdle
    /\ PwrIdle

\* the rate clk_get_rate() reports for a clock the selection may read
RatesOf(present) == IF present THEN Rates ELSE {0}

\* one call of priv->cfg->clk_sel with the rates the clocks report
ClkSel ==
    /\ ~clk_call.done
    /\ \E arate \in RatesOf(cfg.aclk),
          brate \in RatesOf(cfg.bclk /\ cfg.variant # "stm32f4"),
          dt \in DtMaxRates :
        LET in == [aclk |-> cfg.aclk, arate |-> arate,
                   bclk |-> cfg.bclk, brate |-> brate,
                   max |-> max_clk_rate(cfg.variant, dt)]
            r == clk_sel(cfg.variant, in, common_rate, ccr)
        IN  /\ clk_call' = [done |-> TRUE, in |-> in, ret |-> r.ret,
                            plan |-> r.plan, ccr0 |-> ccr, rate0 |-> common_rate]
            /\ ccr' = r.ccr
            /\ common_rate' = r.rate
            /\ UNCHANGED <<cfg, irqvars, pwrvars>>

ClkNext == ClkSel

SpecClk == ClkInit /\ [][ClkNext]_vars

(***************************************************************************)
(* Register model: the common status register (CSR) flags per variant.     *)
(***************************************************************************)
STM32_ADC_MAX_ADCS == 3

STM32F4_OVR3 == BIT(21)
STM32F4_JEOC3 == BIT(18)
STM32F4_EOC3 == BIT(17)
STM32F4_AWD3 == BIT(16)
STM32F4_OVR2 == BIT(13)
STM32F4_JEOC2 == BIT(10)
STM32F4_EOC2 == BIT(9)
STM32F4_AWD2 == BIT(8)
STM32F4_OVR1 == BIT(5)
STM32F4_JEOC1 == BIT(2)
STM32F4_EOC1 == BIT(1)
STM32F4_AWD1 == BIT(0)
STM32F4_EOC_MASK1 == BitOr(BitOr(STM32F4_EOC1, STM32F4_AWD1), STM32F4_OVR1)
STM32F4_EOC_MASK2 == BitOr(BitOr(STM32F4_EOC2, STM32F4_AWD2), STM32F4_OVR2)
STM32F4_EOC_MASK3 == BitOr(BitOr(STM32F4_EOC3, STM32F4_AWD3), STM32F4_OVR3)
STM32F4_JEOC_MASK1 == BitOr(STM32F4_JEOC1, STM32F4_AWD1)
STM32F4_JEOC_MASK2 == BitOr(STM32F4_JEOC2, STM32F4_AWD2)
STM32F4_JEOC_MASK3 == BitOr(STM32F4_JEOC3, STM32F4_AWD3)

STM32H7_AWD3_SLV == BIT(25)
STM32H7_AWD2_SLV == BIT(24)
STM32H7_AWD1_SLV == BIT(23)
STM32H7_JEOS_SLV == BIT(22)
STM32H7_OVR_SLV == BIT(20)
STM32H7_EOC_SLV == BIT(18)
STM32H7_AWD3_MST == BIT(9)
STM32H7_AWD2_MST == BIT(8)
STM32H7_AWD1_MST == BIT(7)
STM32H7_JEOS_MST == BIT(6)
STM32H7_OVR_MST == BIT(4)
STM32H7_EOC_MST == BIT(2)
STM32H7_EOC_MASK1 ==
    BitOr(BitOr(BitOr(BitOr(STM32H7_EOC_MST, STM32H7_AWD1_MST),
                      STM32H7_AWD2_MST), STM32H7_AWD3_MST), STM32H7_OVR_MST)
STM32H7_EOC_MASK2 ==
    BitOr(BitOr(BitOr(BitOr(STM32H7_EOC_SLV, STM32H7_AWD1_SLV),
                      STM32H7_AWD2_SLV), STM32H7_AWD3_SLV), STM32H7_OVR_SLV)
STM32H7_JEOC_MASK1 ==
    BitOr(BitOr(BitOr(STM32H7_JEOS_MST, STM32H7_AWD1_MST),
                STM32H7_AWD2_MST), STM32H7_AWD3_MST)
STM32H7_JEOC_MASK2 ==
    BitOr(BitOr(BitOr(STM32H7_JEOS_SLV, STM32H7_AWD1_SLV),
                STM32H7_AWD2_SLV), STM32H7_AWD3_SLV)

\* mutant: the regular mask of instance 2 also holds the watchdog flag of
\* instance 1
stm32f4_adc_common_regs_overlap ==
    [eoc_msk  |-> <<STM32F4_EOC_MASK1, BitOr(STM32F4_EOC_MASK2, STM32F4_AWD1),
                    STM32F4_EOC_MASK3>>,
     jeoc_msk |-> <<STM32F4_JEOC_MASK1, STM32F4_JEOC_MASK2, STM32F4_JEOC_MASK3>>]

\* eoc_msk[i + 1] is eoc<i+1>_msk; a field the initialiser omits is 0
stm32f4_adc_common_regs ==
    [eoc_msk  |-> <<STM32F4_EOC_MASK1, STM32F4_EOC_MASK2, STM32F4_EOC_MASK3>>,
     jeoc_msk |-> <<STM32F4_JEOC_MASK1, STM32F4_JEOC_MASK2, STM32F4_JEOC_MASK3>>]

stm32h7_adc_common_regs ==
    [eoc_msk  |-> <<STM32H7_EOC_MASK1, STM32H7_EOC_MASK2, 0>>,
     jeoc_msk |-> <<STM32H7_JEOC_MASK1, STM32H7_JEOC_MASK2, 0>>]

\* priv->cfg->regs
regs_of(variant) ==
    IF variant = "stm32f4" THEN stm32f4_adc_common_regs
    ELSE stm32h7_adc_common_regs

\* the flags the hardware can raise in CSR
CsrFlags(variant) ==
    IF variant = "stm32f4"
    THEN {STM32F4_OVR3, STM32F4_JEOC3, STM32F4_EOC3, STM32F4_AWD3,
          STM32F4_OVR2, STM32F4_JEOC2, STM32F4_EOC2, STM32F4_AWD2,
          STM32F4_OVR1, STM32F4_JEOC1, STM32F4_EOC1, STM32F4_AWD1}
    ELSE {STM32H7_AWD3_SLV, STM32H7_AWD2_SLV, STM32H7_AWD1_SLV,
          STM32H7_JEOS_SLV, STM32H7_OVR_SLV, STM32H7_EOC_SLV,
          STM32H7_AWD3_MST, STM32H7_AWD2_MST, STM32H7_AWD1_MST,
          STM32H7_JEOS_MST, STM32H7_OVR_MST, STM32H7_EOC_MST}

\* the regular end of conversion flag of each instance, which a DMA read of
\* the data register clears (0: the variant has no such instance)
EocFlag(variant, adc) ==
    IF variant = "stm32f4"
    THEN <<STM32F4_EOC1, STM32F4_EOC2, STM32F4_EOC3>>[adc + 1]
    ELSE <<STM32H7_EOC_MST, STM32H7_EOC_SLV, 0>>[adc + 1]

\* the injected end of conversion flag of each instance
JeocFlag(variant, adc) ==
    IF variant = "stm32f4"
    THEN <<STM32F4_JEOC1, STM32F4_JEOC2, STM32F4_JEOC3>>[adc + 1]
    ELSE <<STM32H7_JEOS_MST, STM32H7_JEOS_SLV, 0>>[adc + 1]

(***************************************************************************)
(* The chained interrupt handler.                                          *)
(***************************************************************************)
\* size of the irq domain: 2 interrupt sources per ADC instance
DomainSize == STM32_ADC_MAX_ADCS * 2

\* mutant: virtual lines interleaved per instance (2 * adc + kind)
irq_checks_interleaved ==
    << [kind |-> "eoc",  adc |-> 0, hwirq |-> 0],
       [kind |-> "eoc",  adc |-> 1, hwirq |-> 2],
       [kind |-> "eoc",  adc |-> 2, hwirq |-> 4],
       [kind |-> "jeoc", adc |-> 0, hwirq |-> 1],
       [kind |-> "jeoc", adc |-> 1, hwirq |-> 3],
       [kind |-> "jeoc", adc |-> 2, hwirq |-> 5] >>

\* the six tests of the handler, in program order: the mask tested, the
\* instance whose enable bit gates it, the hwirq looked up in the domain
irq_checks ==
    << [kind |-> "eoc",  adc |-> 0, hwirq |-> 0],
       [kind |-> "eoc",  adc |-> 1, hwirq |-> 1],
       [kind |-> "eoc",  adc |-> 2, hwirq |-> 2],
       [kind |-> "jeoc", adc |-> 0, hwirq |-> 3],
       [kind |-> "jeoc", adc |-> 1, hwirq |-> 4],
       [kind |-> "jeoc", adc |-> 2, hwirq |-> 5] >>

\* mutant: the injected masks are tested without the bits of the regular masks
irq_mask_noawd(regs, c) ==
    IF c.kind = "eoc" THEN regs.eoc_msk[c.adc + 1]
    ELSE BitClear(regs.jeoc_msk[c.adc + 1], regs.eoc_msk[c.adc + 1])

irq_mask(regs, c) ==
    IF c.kind = "eoc" THEN regs.eoc_msk[c.adc + 1] ELSE regs.jeoc_msk[c.adc + 1]

\* ier & eocie_msk of instance adc, read from the register when called
stm32_adc_eoc_enabled(ierv, adc) == IF ierv[adc] THEN 1 ELSE 0

\* mutant: the regular path is not gated by the enable bit
irq_test_ungated(regs, c, status, ierv) ==
    LET pending == BitAnd(status, irq_mask(regs, c)) # 0 IN
    [fire |-> pending,
     en   |-> IF c.kind = "eoc" /\ pending
              THEN stm32_adc_eoc_enabled(ierv, c.adc) ELSE -1]

\* mutant: the injected path is gated by the enable bit like the regular one
irq_test_allgated(regs, c, status, ierv) ==
    LET pending == BitAnd(status, irq_mask(regs, c)) # 0 IN
    [fire |-> pending /\ stm32_adc_eoc_enabled(ierv, c.adc) # 0,
     en   |-> IF pending THEN stm32_adc_eoc_enabled(ierv, c.adc) ELSE -1]

\* mutant: every test reads the status register again
irq_test_live(regs, c, status, ierv) ==
    LET pending == BitAnd(csr, irq_mask(regs, c)) # 0 IN
    IF c.kind = "eoc"
    THEN [fire |-> pending /\ stm32_adc_eoc_enabled(ierv, c.adc) # 0,
          en   |-> IF pending THEN stm32_adc_eoc_enabled(ierv, c.adc) ELSE -1]
    ELSE [fire |-> pending, en |-> -1]

\* one test of the handler: "status & mask && stm32_adc_eoc_enabled()" for
\* the regular masks (the enable register is read only when a flag is set),
\* "status & mask" alone for the injected masks
irq_test(regs, c, status, ierv) ==
    LET pending == BitAnd(status, irq_mask(regs, c)) # 0 IN
    IF c.kind = "eoc"
    THEN [fire |-> pending /\ stm32_adc_eoc_enabled(ierv, c.adc) # 0,
          en   |-> IF pending THEN stm32_adc_eoc_enabled(ierv, c.adc) ELSE -1]
    ELSE [fire |-> pending, en |-> -1]

RECURSIVE SumSet(_)
SumSet(S) == IF S = {} THEN 0
             ELSE LET x == CHOOSE y \in S : TRUE IN x + SumSet(S \ {x})

\* the values CSR can hold: up to MaxStatusBits flags set
Statuses(variant) ==
    {SumSet(S) : S \in {T \in SUBSET CsrFlags(variant) :
                            Cardinality(T) <= MaxStatusBits}}

\* stm32h7 and stm32mp1 share one register model: stm32h7_adc_common_regs
IrqConfigs == {c \in ClkConfigs : ~c.aclk /\ ~c.bclk /\ c.variant # "stm32mp1"}

IrqInit ==
    /\ cfg \in IrqConfigs
    /\ ccr = 0
    /\ common_rate = 0
    /\ clk_call = [done |-> FALSE]
    /\ csr \in Statuses(cfg.variant)
    /\ ier \in [0..2 -> BOOLEAN]
    /\ IrqIdle
    /\ PwrIdle

\* chained_irq_enter(); status = readl_relaxed(csr)
IrqEnter ==
    /\ h_pc = 0
    /\ h_pc' = 1
    /\ h_status' = csr
    /\ h_en' = [i \in 0..2 |-> -1]
    /\ delivered' = << >>
    /\ UNCHANGED <<cfg, clkvars, pwrvars, mp, csr, ier>>

\* one of the six "if (status & mask ...) generic_handle_irq(...)" statements
IrqTest ==
    /\ h_pc \in 1..Len(irq_checks)
    /\ LET c == irq_checks[h_pc]
           t == irq_test(regs_of(cfg.variant), c, h_status, ier)
       IN  /\ delivered' = IF t.fire THEN Append(delivered, c.hwirq) ELSE delivered
           /\ h_en' = IF c.kind = "eoc" THEN [h_en EXCEPT ![c.adc] = t.en] ELSE h_en
    /\ h_pc' = h_pc + 1
    /\ UNCHANGED <<cfg, clkvars, pwrvars, mp, csr, ier, h_status>>

\* chained_irq_exit(); the handler returns
IrqExit ==
    /\ h_pc = Len(irq_checks) + 1
    /\ h_pc' = 0
    /\ h_status' = 0
    /\ h_en' = [i \in 0..2 |-> -1]
    /\ delivered' = << >>
    /\ UNCHANGED <<cfg, clkvars, pwrvars, mp, csr, ier>>

\* the flags set in a CSR value
FlagsSet(variant, v) == {f \in CsrFlags(variant) : BitAnd(v, f) # 0}

\* a conversion, watchdog or overrun event raises a flag: before a dispatch,
\* or during one, right after its status read (a flag raised later in the
\* handler is seen by no test that this one is not seen by)
HwRaise ==
    /\ h_pc = 0 \/ (h_pc = 1 /\ csr = h_status)
    /\ \E f \in CsrFlags(cfg.variant) :
          /\ BitAnd(csr, f) = 0
          /\ Cardinality(FlagsSet(cfg.variant, csr)) < MaxStatusBits
          /\ csr' = csr + f
    /\ UNCHANGED <<cfg, clkvars, pwrvars, mp, ier, h_pc, h_status, h_en,
                   delivered>>

\* a DMA read of an instance's data register clears its EOC flag, at any time
DmaRead ==
    /\ \E adc \in 0..(STM32_ADC_MAX_ADCS - 1) :
          /\ BitAnd(csr, EocFlag(cfg.variant, adc)) # 0
          /\ csr' = BitClear(csr, EocFlag(cfg.variant, adc))
    /\ UNCHANGED <<cfg, clkvars, pwrvars, mp, ier, h_pc, h_status, h_en,
                   delivered>>

\* an ADC instance sets or clears its EOCIE bit, at any time
IerWrite ==
    /\ \E adc \in 0..(STM32_ADC_MAX_ADCS - 1) :
          ier' = [ier EXCEPT ![adc] = ~ier[adc]]
    /\ UNCHANGED <<cfg, clkvars, pwrvars, mp, csr, h_pc, h_status, h_en,
                   delivered>>

IrqNext == IrqEnter \/ IrqTest \/ IrqExit \/ HwRaise \/ DmaRead \/ IerWrite

SpecIrq == IrqInit /\ [][IrqNext]_vars

(***************************************************************************)
(* Power sequencing.  hs is the state the sequences act on:                *)
(*   en      net number of enables the core holds on each regulator/clock  *)
(*   booster, anasw   the EN_BOOSTER and ANASWVDD bits in SYSCFG           *)
(*   ccr     the common control register                                   *)
(*   log     the calls made to the providers and registers, in order       *)
(* in is what the providers answer: the step that fails (or "none"), the   *)
(* error it returns, and the voltages of vdda and vdd.                     *)
(***************************************************************************)
Resources == {"vdda", "vdd", "vref", "bclk", "aclk"}

Log(hs, e) == [hs EXCEPT !.log = Append(@, e)]

\* regulator_enable() / clk_prepare_enable() returning 0
Enable(hs, r) ==
    [hs EXCEPT !.en[r] = @ + 1, !.log = Append(@, <<"enable", r>>)]

\* the same call returning an error: nothing is enabled
EnableFail(hs, r) == Log(hs, <<"enable_fail", r>>)

\* regulator_disable() / clk_disable_unprepare()
Disable(hs, r) ==
    [hs EXCEPT !.en[r] = @ - 1, !.log = Append(@, <<"disable", r>>)]

\* mutant: with vdd high enough the booster is requested along with the switch
switch_policy_both(vdda, vdd) ==
    IF vdda > 2700000
    THEN [en_booster |-> FALSE, anaswvdd |-> FALSE]
    ELSE IF vdd < 2700000
         THEN [en_booster |-> TRUE, anaswvdd |-> FALSE]
         ELSE [en_booster |-> TRUE, anaswvdd |-> TRUE]

\* mutant: a vdda of exactly 2.7V counts as high
switch_policy_ge(vdda, vdd) ==
    IF vdda >= 2700000
    THEN [en_booster |-> FALSE, anaswvdd |-> FALSE]
    ELSE IF vdd < 2700000
         THEN [en_booster |-> TRUE, anaswvdd |-> FALSE]
         ELSE [en_booster |-> FALSE, anaswvdd |-> TRUE]

\* vdda > 2.7V: both off; else vdd < 2.7V: booster; else: switches on vdd
switch_policy(vdda, vdd) ==
    IF vdda > 2700000
    THEN [en_booster |-> FALSE, anaswvdd |-> FALSE]
    ELSE IF vdd < 2700000
         THEN [en_booster |-> TRUE, anaswvdd |-> FALSE]
         ELSE [en_booster |-> FALSE, anaswvdd |-> TRUE]

\* direct write of the en_booster value, or use of the clear register
booster_write(hs, c, on) ==
    IF on \/ ~c.vbooster_clr
    THEN [hs EXCEPT !.booster = on,
                    !.log = Append(@, <<"update_bits", "vbooster", on>>)]
    ELSE [hs EXCEPT !.booster = FALSE,
                    !.log = Append(@, <<"write", "vbooster_clr", FALSE>>)]

\* direct write of the anaswvdd value, or use of the clear register
anaswvdd_write(hs, c, on) ==
    IF on \/ ~c.anaswvdd_clr
    THEN [hs EXCEPT !.anasw = on,
                    !.log = Append(@, <<"update_bits", "anaswvdd", on>>)]
    ELSE [hs EXCEPT !.anasw = FALSE,
                    !.log = Append(@, <<"write", "anaswvdd_clr", FALSE>>)]

\* the select regulator is used when it and the ANASWVDD cell are configured
use_vdd(c) == c.vdd /\ c.anaswvdd

\* labels vdda_dis, vdd_dis and booster_dis of stm32_adc_switches_supply_en
sw_vdda_dis(hs, c) == Disable(hs, "vdda")
sw_vdd_dis(hs, c) ==
    sw_vdda_dis(IF use_vdd(c) THEN Disable(hs, "vdd") ELSE hs, c)
\* mutant: label booster_dis leaves the booster setting as written
sw_booster_dis_keep(hs, c) == sw_vdd_dis(hs, c)
sw_booster_dis(hs, c) == sw_vdd_dis(booster_write(hs, c, FALSE), c)

stm32_adc_switches_supply_en(hs, c, in) ==
    IF ~c.vdda \/ ~c.vbooster THEN [hs |-> hs, ret |-> 0]
    ELSE IF in.fail = "vdda_en"
    THEN [hs |-> EnableFail(hs, "vdda"), ret |-> in.err]
    ELSE LET s1 == Enable(hs, "vdda") IN
    IF in.fail = "vdda_get"
    THEN [hs |-> sw_vdda_dis(Log(s1, <<"get_voltage_fail", "vdda">>), c),
          ret |-> in.err]
    ELSE LET s2 == Log(s1, <<"get_voltage", "vdda">>) IN
    IF use_vdd(c) /\ in.fail = "vdd_en"
    THEN [hs |-> sw_vdda_dis(EnableFail(s2, "vdd"), c), ret |-> in.err]
    ELSE LET s3 == IF use_vdd(c) THEN Enable(s2, "vdd") ELSE s2 IN
    IF use_vdd(c) /\ in.fail = "vdd_get"
    THEN [hs |-> sw_vdd_dis(Log(s3, <<"get_voltage_fail", "vdd">>), c),
          ret |-> in.err]
    ELSE LET s4 == IF use_vdd(c) THEN Log(s3, <<"get_voltage", "vdd">>) ELSE s3
             vdd == IF use_vdd(c) THEN in.vdd_uv ELSE 0
             d == switch_policy(in.vdda_uv, vdd)
         IN
    IF in.fail = "booster_wr"
    THEN [hs |-> sw_vdd_dis(Log(s4, <<"write_fail", "vbooster">>), c),
          ret |-> in.err]
    ELSE LET s5 == booster_write(s4, c, d.en_booster)
             s6 == IF d.en_booster THEN Log(s5, <<"usleep_range">>) ELSE s5
         IN
    IF c.anaswvdd /\ in.fail = "anasw_wr"
    THEN [hs |-> sw_booster_dis(Log(s6, <<"write_fail", "anaswvdd">>), c),
          ret |-> in.err]
    ELSE [hs |-> IF c.anaswvdd THEN anaswvdd_write(s6, c, d.anaswvdd) ELSE s6,
          ret |-> 0]

\* mutant: the teardown is skipped only when vdda is missing
stm32_adc_switches_supply_dis_vdda(hs, c) ==
    IF ~c.vdda THEN hs
    ELSE LET s1 == IF c.anaswvdd THEN anaswvdd_write(hs, c, FALSE) ELSE hs
             s2 == booster_write(s1, c, FALSE)
             s3 == IF use_vdd(c) THEN Disable(s2, "vdd") ELSE s2
         IN  Disable(s3, "vdda")

stm32_adc_switches_supply_dis(hs, c) ==
    IF ~c.vdda \/ ~c.vbooster THEN hs
    ELSE LET s1 == IF c.anaswvdd THEN anaswvdd_write(hs, c, FALSE) ELSE hs
             s2 == booster_write(s1, c, FALSE)
             s3 == IF use_vdd(c) THEN Disable(s2, "vdd") ELSE s2
         IN  Disable(s3, "vdda")

\* labels err_bclk_disable, err_regulator_disable, err_switches_disable
err_switches_disable(hs, c) == stm32_adc_switches_supply_dis(hs, c)
err_regulator_disable(hs, c) == err_switches_disable(Disable(hs, "vref"), c)
err_bclk_disable(hs, c) ==
    err_regulator_disable(IF c.bclk THEN Disable(hs, "bclk") ELSE hs, c)

\* mutant: a failed analog clock enable leaves the bus clock enabled
stm32_adc_core_hw_start_leak(hs, c, in, bak) ==
    LET sw == stm32_adc_switches_supply_en(hs, c, in) IN
    IF sw.ret < 0 THEN sw
    ELSE IF in.fail = "vref_en"
    THEN [hs |-> err_switches_disable(EnableFail(sw.hs, "vref"), c),
          ret |-> in.err]
    ELSE LET s1 == Enable(sw.hs, "vref") IN
    IF c.bclk /\ in.fail = "bclk_en"
    THEN [hs |-> err_regulator_disable(EnableFail(s1, "bclk"), c),
          ret |-> in.err]
    ELSE LET s2 == IF c.bclk THEN Enable(s1, "bclk") ELSE s1 IN
    IF c.aclk /\ in.fail = "aclk_en"
    THEN [hs |-> err_regulator_disable(EnableFail(s2, "aclk"), c),
          ret |-> in.err]
    ELSE LET s3 == IF c.aclk THEN Enable(s2, "aclk") ELSE s2 IN
    [hs |-> [s3 EXCEPT !.ccr = bak, !.log = Append(@, <<"write_ccr", bak>>)],
     ret |-> 0]

\* mutant: the control register is written before the analog clock is enabled
stm32_adc_core_hw_start_ccr_first(hs, c, in, bak) ==
    LET sw == stm32_adc_switches_supply_en(hs, c, in) IN
    IF sw.ret < 0 THEN sw
    ELSE IF in.fail = "vref_en"
    THEN [hs |-> err_switches_disable(EnableFail(sw.hs, "vref"), c),
          ret |-> in.err]
    ELSE LET s1 == Enable(sw.hs, "vref") IN
    IF c.bclk /\ in.fail = "bclk_en"
    THEN [hs |-> err_regulator_disable(EnableFail(s1, "bclk"), c),
          ret |-> in.err]
    ELSE LET s2 == IF c.bclk THEN Enable(s1, "bclk") ELSE s1 IN
    IF c.aclk /\ in.fail = "aclk_en"
    THEN [hs |-> err_bclk_disable(EnableFail(s2, "aclk"), c),
          ret |-> in.err]
    ELSE LET s3 == [s2 EXCEPT !.ccr = bak,
                              !.log = Append(@, <<"write_ccr", bak>>)]
         IN
    [hs |-> IF c.aclk THEN Enable(s3, "aclk") ELSE s3, ret |-> 0]

\* bak is priv->ccr_bak
stm32_adc_core_hw_start(hs, c, in, bak) ==
    LET sw == stm32_adc_switches_supply_en(hs, c, in) IN
    IF sw.ret < 0 THEN sw
    ELSE IF in.fail = "vref_en"
    THEN [hs |-> err_switches_disable(EnableFail(sw.hs, "vref"), c),
          ret |-> in.err]
    ELSE LET s1 == Enable(sw.hs, "vref") IN
    IF c.bclk /\ in.fail = "bclk_en"
    THEN [hs |-> err_regulator_disable(EnableFail(s1, "bclk"), c),
          ret |-> in.err]
    ELSE LET s2 == IF c.bclk THEN Enable(s1, "bclk") ELSE s1 IN
    IF c.aclk /\ in.fail = "aclk_en"
    THEN [hs |-> err_bclk_disable(EnableFail(s2, "aclk"), c),
          ret |-> in.err]
    ELSE LET s3 == IF c.aclk THEN Enable(s2, "aclk") ELSE s2 IN
    [hs |-> [s3 EXCEPT !.ccr = bak, !.log = Append(@, <<"write_ccr", bak>>)],
     ret |-> 0]

\* mutant: only the clock fields of CCR are backed up
stm32_adc_core_hw_stop_fields(hs, c) ==
    LET bak == BitAnd(hs.ccr, GENMASK(21, 16))
        s0 == Log(hs, <<"read_ccr", hs.ccr>>)
        s1 == IF c.aclk THEN Disable(s0, "aclk") ELSE s0
        s2 == IF c.bclk THEN Disable(s1, "bclk") ELSE s1
        s3 == Disable(s2, "vref")
    IN  [hs |-> stm32_adc_switches_supply_dis(s3, c), bak |-> bak]

\* mutant: the bus clock is disabled before the analog clock
stm32_adc_core_hw_stop_bclk_first(hs, c) ==
    LET bak == hs.ccr
        s0 == Log(hs, <<"read_ccr", hs.ccr>>)
        s1 == IF c.bclk THEN Disable(s0, "bclk") ELSE s0
        s2 == IF c.aclk THEN Disable(s1, "aclk") ELSE s1
        s3 == Disable(s2, "vref")
    IN  [hs |-> stm32_adc_switches_supply_dis(s3, c), bak |-> bak]

\* returns the new state and the new value of priv->ccr_bak
stm32_adc_core_hw_stop(hs, c) ==
    LET bak == hs.ccr
        s0 == Log(hs, <<"read_ccr", hs.ccr>>)
        s1 == IF c.aclk THEN Disable(s0, "aclk") ELSE s0
        s2 == IF c.bclk THEN Disable(s1, "bclk") ELSE s1
        s3 == Disable(s2, "vref")
    IN  [hs |-> stm32_adc_switches_supply_dis(s3, c), bak |-> bak]

\* Sanity, check syscfg set/clear pairs are filled in
stm32_adc_syscfg_probe(c) ==
    IF has_syscfg_clr(c.variant)
        /\ ((c.vbooster /\ ~c.vbooster_clr) \/ (c.anaswvdd /\ ~c.anaswvdd_clr))
    THEN -EINVAL
    ELSE 0

(***************************************************************************)
(* Interrupt demultiplexer installation and removal.                       *)
(***************************************************************************)
\* what platform_get_irq() answers for a line: an irq number, -ENXIO (no such
\* line) or another error
IrqAnswers == {"ok", "enxio", "err"}

irq_value(i, a) ==
    IF a = "ok" THEN 32 + i ELSE IF a = "enxio" THEN -ENXIO ELSE -ENODEV

\* the line at which the first loop of stm32_adc_irq_probe returns (3: none)
irq_fatal(res) ==
    LET bad == {i \in 0..2 : res[i] # "ok" /\ ~(i # 0 /\ res[i] = "enxio")}
    IN  IF bad = {} THEN STM32_ADC_MAX_ADCS ELSE Min(bad)

\* mutant: the chained handler is installed on all three lines
stm32_adc_irq_probe_all(res, nodomain, chained0) ==
    LET f == irq_fatal(res)
        q == [i \in 0..2 |-> IF i <= f THEN irq_value(i, res[i]) ELSE 0]
    IN  IF f < STM32_ADC_MAX_ADCS
        THEN [ret |-> q[f], irq |-> q, domain |-> FALSE, chained |-> chained0]
        ELSE IF nodomain
        THEN [ret |-> -ENOMEM, irq |-> q, domain |-> FALSE, chained |-> chained0]
        ELSE [ret |-> 0, irq |-> q, domain |-> TRUE,
              chained |-> [i \in 0..2 |-> TRUE]]

\* res: platform_get_irq() per line; nodomain: irq_domain_add_simple() fails;
\* chained0: the handlers installed before the call
stm32_adc_irq_probe(res, nodomain, chained0) ==
    LET f == irq_fatal(res)
        q == [i \in 0..2 |-> IF i <= f THEN irq_value(i, res[i]) ELSE 0]
    IN  IF f < STM32_ADC_MAX_ADCS
        THEN [ret |-> q[f], irq |-> q, domain |-> FALSE, chained |-> chained0]
        ELSE IF nodomain
        THEN [ret |-> -ENOMEM, irq |-> q, domain |-> FALSE, chained |-> chained0]
        ELSE [ret |-> 0, irq |-> q, domain |-> TRUE,
              chained |-> [i \in 0..2 |-> IF q[i] < 0 THEN chained0[i] ELSE TRUE]]

stm32_adc_irq_remove(q, chained0) ==
    [domain |-> FALSE,
     chained |-> [i \in 0..2 |-> IF q[i] < 0 THEN chained0[i] ELSE FALSE]]

(***************************************************************************)
(* Probe, remove and the runtime PM callbacks.                             *)
(***************************************************************************)
\* the core's view of the hardware and providers, with an empty log
PrivHs == [en |-> en, booster |-> booster, anasw |-> anasw, ccr |-> ccr,
           log |-> << >>]

Relog(hs) == [hs EXCEPT !.log = << >>]

NoCall == [done |-> FALSE]

StartRec(hs0, bak, hin, r) ==
    [done |-> TRUE, in |-> hin, ret |-> r.ret, log |-> r.hs.log,
     en0 |-> hs0.en, ccr0 |-> hs0.ccr, bak |-> bak,
     sw0 |-> <<hs0.booster, hs0.anasw>>]

StopRec(hs0, r) ==
    [done |-> TRUE, log |-> r.hs.log, en0 |-> hs0.en, ccr0 |-> hs0.ccr,
     sw0 |-> <<hs0.booster, hs0.anasw>>]

\* the steps of hw_start that can fail with this configuration
HwFails(c) ==
    (IF c.vdda /\ c.vbooster
     THEN {"vdda_en", "vdda_get", "booster_wr"}
              \cup (IF use_vdd(c) THEN {"vdd_en", "vdd_get"} ELSE {})
              \cup (IF c.anaswvdd THEN {"anasw_wr"} ELSE {})
     ELSE {})
        \cup {"vref_en"}
        \cup (IF c.bclk THEN {"bclk_en"} ELSE {})
        \cup (IF c.aclk THEN {"aclk_en"} ELSE {})

\* the error a failing provider returns
Errs == {-ENODEV}

\* the voltages regulator_get_voltage() can report, when it is called
VddaUv(c) == IF c.vdda /\ c.vbooster THEN {2700000, 2800000} ELSE {0}
VddUv(c) ==
    IF c.vdda /\ c.vbooster /\ use_vdd(c) THEN {2600000, 2700000} ELSE {0}

\* the answers of the providers to one hw_start: a failure before a voltage is
\* read leaves that voltage unread
HwIn(c) ==
    {[fail |-> "none", err |-> 0, vdda_uv |-> a, vdd_uv |-> d] :
        a \in VddaUv(c), d \in VddUv(c)}
    \cup
    {[fail |-> f, err |-> e, vdda_uv |-> 0, vdd_uv |-> 0] :
        f \in HwFails(c) \cap {"vdda_en", "vdda_get"}, e \in Errs}
    \cup
    {[fail |-> f, err |-> e, vdda_uv |-> a, vdd_uv |-> 0] :
        f \in HwFails(c) \cap {"vdd_en", "vdd_get"}, e \in Errs, a \in VddaUv(c)}
    \cup
    {[fail |-> f, err |-> e, vdda_uv |-> a, vdd_uv |-> d] :
        f \in HwFails(c) \ {"vdda_en", "vdda_get", "vdd_en", "vdd_get"},
        e \in Errs, a \in VddaUv(c), d \in VddUv(c)}

\* rates the clocks report at probe
ProbeRates == {0, 80000000}
ProbeRatesOf(present) == IF present THEN ProbeRates ELSE {0}

\* the bus clock rate is read by the H7 selection only, and only after the
\* analog clock is found absent or too fast for every prescaler; an analog
\* clock at a rate of ProbeRates reports zero or fits
BusRateRead(c) == c.variant # "stm32f4" /\ c.bclk /\ ~c.aclk

\* platform_get_irq() for the three lines; lines after a fatal one are not asked
ProbeIrqs ==
    {res \in [0..2 -> IrqAnswers] :
        \A i \in 0..2 : i > irq_fatal(res) => res[i] = "ok"}

\* the steps of probe after hw_start that fail by their provider's answer
ProbeFails == {"none", "vref_get", "domain", "triggers", "populate"}

\* the answers to probe after hw_start: the step that fails (or "none"), the
\* error it returns, the clock rates, the max-rate property, the irq lines
ProbeIn(c) ==
    {[pfail |-> "vref_get", err |-> -ENODEV, arate |-> 0, brate |-> 0,
      dt |-> NoProp, irqs |-> [i \in 0..2 |-> "ok"]]}
    \cup
    {[pfail |-> "none", err |-> 0,
      arate |-> a, brate |-> b, dt |-> NoProp, irqs |-> q] :
        a \in ProbeRatesOf(c.aclk),
        b \in ProbeRatesOf(BusRateRead(c)),
        q \in ProbeIrqs}
    \cup
    {[pfail |-> f, err |-> -ENODEV,
      arate |-> Max(ProbeRatesOf(c.aclk)),
      brate |-> Max(ProbeRatesOf(BusRateRead(c))),
      dt |-> NoProp, irqs |-> q] :
        f \in ProbeFails \ {"none", "vref_get"},
        q \in {r \in ProbeIrqs : irq_fatal(r) = STM32_ADC_MAX_ADCS}}

NoProbeIn ==
    [pfail |-> "none", err |-> 0, arate |-> 0, brate |-> 0, dt |-> NoProp,
     irqs |-> [i \in 0..2 |-> "ok"]]

\* every clock the configuration has has been enabled since hs0: its enable
\* count in hs is above the one in hs0
ClocksOn(hs0, hs, c) ==
    /\ c.aclk => hs.en["aclk"] > hs0.en["aclk"]
    /\ c.bclk => hs.en["bclk"] > hs0.en["bclk"]

\* a call of probe or remove, with the state it is made in: the clocks are
\* enabled, the irq domain exists, the child devices exist
Step(op, on, dom, kids) ==
    [op |-> op, clocks |-> on, domain |-> dom, children |-> kids]

\* label err_hw_stop of stm32_adc_probe
probe_err_hw_stop(ret, stage, st, hs, c, q, ch, clk, steps) ==
    LET sp == stm32_adc_core_hw_stop(Relog(hs), c) IN
    [ret |-> ret, stage |-> stage, hs |-> sp.hs, bak |-> sp.bak, rate |-> 0,
     irq |-> q, domain |-> FALSE, chained |-> ch, children |-> FALSE,
     start |-> st, stop |-> StopRec(hs, sp), clk |-> clk,
     steps |-> Append(steps, Step("hw_stop", steps[Len(steps)].clocks,
                                  FALSE, FALSE))]

\* mutant: the chained handlers are left in place
probe_err_irq_remove_skip(ret, stage, st, hs, c, q, ch, clk, steps) ==
    probe_err_hw_stop(ret, stage, st, hs, c, q, ch, clk, steps)

\* label err_irq_remove of stm32_adc_probe
probe_err_irq_remove(ret, stage, st, hs, c, q, ch, clk, steps) ==
    probe_err_hw_stop(ret, stage, st, hs, c, q,
                      stm32_adc_irq_remove(q, ch).chained, clk,
                      Append(steps, Step("irq_remove",
                                         steps[Len(steps)].clocks, TRUE, FALSE)))

\* stm32_adc_probe from the hw_start call on (priv is zeroed: ccr_bak = 0);
\* r is what stm32_adc_core_hw_start(hs, c, hin, 0) returned
stm32_adc_probe(hs, c, hin, pin, chained0, r) ==
    LET st == StartRec(hs, 0, hin, r)
        q0 == [i \in 0..2 |-> 0]
        on == ClocksOn(hs, r.hs, c)
        t1 == <<Step("hw_start", FALSE, FALSE, FALSE)>>
        t2 == Append(t1, Step("vref_get", on, FALSE, FALSE))
        t3 == Append(t2, Step("clk_sel", on, FALSE, FALSE))
    IN
    IF r.ret # 0
    THEN [ret |-> r.ret, stage |-> "hw_start", hs |-> r.hs, bak |-> 0,
          rate |-> 0, irq |-> q0, domain |-> FALSE, chained |-> chained0,
          children |-> FALSE, start |-> st, stop |-> NoCall, clk |-> NoCall,
          steps |-> t1]
    ELSE IF pin.pfail = "vref_get"
    THEN probe_err_hw_stop(pin.err, "vref_get", st, r.hs, c, q0, chained0,
                           NoCall, t2)
    ELSE LET in == [aclk |-> c.aclk, arate |-> pin.arate,
                    bclk |-> c.bclk, brate |-> pin.brate,
                    max |-> max_clk_rate(c.variant, pin.dt)]
             ck == clk_sel(c.variant, in, 0, r.hs.ccr)
             clk == [done |-> TRUE, in |-> in, ret |-> ck.ret, plan |-> ck.plan,
                     ccr0 |-> r.hs.ccr, rate0 |-> 0]
             hs2 == [r.hs EXCEPT !.ccr = ck.ccr]
         IN
    IF ck.ret < 0
    THEN probe_err_hw_stop(ck.ret, "clk_sel", st, hs2, c, q0, chained0, clk, t3)
    ELSE LET ip == stm32_adc_irq_probe(pin.irqs, pin.pfail = "domain", chained0)
             t4 == Append(t3, Step("irq_probe", on, FALSE, FALSE))
             t5 == Append(t4, Step("triggers", on, ip.domain, FALSE))
             t6 == Append(t5, Step("populate", on, ip.domain, FALSE))
         IN
    IF ip.ret < 0
    THEN probe_err_hw_stop(ip.ret, "irq_probe", st, hs2, c, ip.irq, ip.chained,
                           clk, t4)
    ELSE IF pin.pfail = "triggers"
    THEN probe_err_irq_remove(pin.err, pin.pfail, st, hs2, c, ip.irq,
                              ip.chained, clk, t5)
    ELSE IF pin.pfail = "populate"
    THEN probe_err_irq_remove(pin.err, pin.pfail, st, hs2, c, ip.irq,
                              ip.chained, clk, t6)
    ELSE [ret |-> 0, stage |-> "none", hs |-> hs2, bak |-> 0, rate |-> ck.rate,
          irq |-> ip.irq, domain |-> TRUE, chained |-> ip.chained,
          children |-> TRUE, start |-> st, stop |-> NoCall, clk |-> clk,
          steps |-> t6]

SetHs(hs) ==
    /\ en' = hs.en
    /\ booster' = hs.booster
    /\ anasw' = hs.anasw
    /\ ccr' = hs.ccr

\* the configurations stm32_adc_syscfg_probe accepts
Board(v, a, b, da, dd, vb, vbc, sw, swc) ==
    [variant |-> v, aclk |-> a, bclk |-> b, vdda |-> da, vdd |-> dd,
     vbooster |-> vb, vbooster_clr |-> vbc, anaswvdd |-> sw, anaswvdd_clr |-> swc]

\* device trees the lifecycle is explored with
Boards ==
    {Board("stm32f4", TRUE, FALSE, FALSE, FALSE, FALSE, FALSE, FALSE, FALSE),
     Board("stm32h7", TRUE, TRUE, FALSE, FALSE, FALSE, FALSE, FALSE, FALSE),
     Board("stm32h7", FALSE, FALSE, TRUE, FALSE, FALSE, FALSE, FALSE, FALSE),
     Board("stm32h7", FALSE, TRUE, TRUE, FALSE, TRUE, FALSE, FALSE, FALSE),
     Board("stm32mp1", FALSE, TRUE, TRUE, TRUE, TRUE, TRUE, FALSE, FALSE),
     Board("stm32mp1", TRUE, TRUE, TRUE, TRUE, TRUE, TRUE, TRUE, TRUE)}

PwrConfigs == {c \in Boards : stm32_adc_syscfg_probe(c) = 0}

Init ==
    /\ cfg \in PwrConfigs
    /\ ccr \in {0, BIT(23) + BIT(17) + BIT(8)}
    /\ common_rate = 0
    /\ clk_call = NoCall
    /\ csr = 0
    /\ ier = [i \in 0..2 |-> FALSE]
    /\ IrqIdle
    /\ PwrIdle

Probe ==
    /\ pm = "unbound"
    /\ probes < MaxProbes
    /\ \E hin \in HwIn(cfg) :
        \E pin \in (IF hin.fail = "none" THEN ProbeIn(cfg) ELSE {NoProbeIn}) :
        \E r \in {stm32_adc_core_hw_start(PrivHs, cfg, hin, 0)} :
        \E o \in {stm32_adc_probe(PrivHs, cfg, hin, pin, chained, r)} :
          /\ SetHs(o.hs)
          /\ ccr_bak' = o.bak
          /\ common_rate' = o.rate
          /\ clk_call' = o.clk
          /\ irq' = o.irq
          /\ domain' = o.domain
          /\ chained' = o.chained
          /\ children' = o.children
          /\ start_call' = o.start
          /\ stop_call' = o.stop
          /\ probe_call' = [done |-> TRUE, stage |-> o.stage, ret |-> o.ret,
                             in |-> pin]
          /\ life' = o.steps
          /\ pm' = IF o.ret = 0 THEN "active" ELSE "unbound"
    /\ probes' = probes + 1
    /\ saved' = -1
    /\ start_fails' = 0
    /\ lost' = FALSE
    /\ UNCHANGED <<cfg, td, irqvars>>

\* stm32_adc_core_runtime_suspend, called by runtime PM on an active device
RuntimeSuspend ==
    /\ pm = "active"
    /\ \E sp \in {stm32_adc_core_hw_stop(PrivHs, cfg)} :
          /\ SetHs(sp.hs)
          /\ ccr_bak' = sp.bak
          /\ stop_call' = StopRec(PrivHs, sp)
    /\ saved' = ccr
    /\ start_call' = NoCall
    /\ start_fails' = 0
    /\ lost' = FALSE
    /\ pm' = "suspended"
    /\ UNCHANGED <<cfg, td, life, common_rate, clk_call,
                   irqvars, probe_call, probes,
                   irq, domain, chained, children>>

\* a bit of CCR outside the clock fields that the ADC instances own
ChildCcrBit == BIT(23)

\* an ADC instance, populated and active, sets or clears its bit of the common
\* control register through common.base
ChildCcrWrite ==
    /\ pm = "active"
    /\ children
    /\ ccr' = IF BitAnd(ccr, ChildCcrBit) = 0
              THEN ccr + ChildCcrBit ELSE ccr - ChildCcrBit
    /\ UNCHANGED <<cfg, td, life, common_rate, clk_call,
                   irqvars, en, booster, anasw,
                   ccr_bak, pm, saved, start_fails, lost, start_call, stop_call,
                   probe_call, probes, irq, domain, chained, children>>

\* the register loses or changes its content while the core is stopped
CcrLost ==
    /\ pm = "suspended"
    /\ ccr' \in CcrValues \ {ccr}
    /\ lost' = TRUE
    /\ UNCHANGED <<cfg, td, life, common_rate, clk_call,
                   irqvars, en, booster, anasw,
                   ccr_bak, pm, saved, start_fails, start_call, stop_call,
                   probe_call, probes, irq, domain, chained, children>>

\* stm32_adc_core_runtime_resume, called by runtime PM on a suspended device;
\* the device stays suspended when it fails
RuntimeResume ==
    /\ pm = "suspended"
    /\ \E hin \in HwIn(cfg) :
          /\ hin.fail # "none" => start_fails < MaxStartFails
          /\ \E r \in {stm32_adc_core_hw_start(PrivHs, cfg, hin, ccr_bak)} :
                /\ SetHs(r.hs)
                /\ start_call' = StartRec(PrivHs, ccr_bak, hin, r)
                /\ pm' = IF r.ret = 0 THEN "active" ELSE "suspended"
                /\ start_fails' = IF r.ret = 0 THEN start_fails ELSE start_fails + 1
    /\ UNCHANGED <<cfg, td, life, common_rate, clk_call,
                   irqvars, ccr_bak, saved, lost,
                   stop_call, probe_call, probes, irq, domain, chained, children>>

\* pm_runtime_get_sync() in remove: the device is resumed if it is suspended
\* and the result is not looked at; on tells whether the clocks are enabled
\* afterwards (an active device has them enabled)
remove_get_sync(hs, c, hin, bak, suspended) ==
    IF suspended
    THEN LET r == stm32_adc_core_hw_start(hs, c, hin, bak) IN
         [hs |-> r.hs, start |-> StartRec(hs, bak, hin, r),
          on |-> ClocksOn(hs, r.hs, c)]
    ELSE [hs |-> hs, start |-> NoCall, on |-> TRUE]

\* mutant: the interrupt demultiplexer is removed before the children are
stm32_adc_remove_irq_first(g, sp, q, ch, c, dom, kids) ==
    LET ir == stm32_adc_irq_remove(q, ch)
    IN  [hs |-> sp.hs, bak |-> sp.bak, start |-> g.start,
         stop |-> StopRec(g.hs, sp), domain |-> ir.domain,
         chained |-> ir.chained, children |-> FALSE,
         steps |-> <<Step("irq_remove", g.on, dom, kids),
                     Step("depopulate", g.on, ir.domain, kids),
                     Step("hw_stop", g.on, ir.domain, FALSE)>>]

\* stm32_adc_remove; g is what pm_runtime_get_sync() left, sp what
\* stm32_adc_core_hw_stop returns from there, dom and kids whether the irq
\* domain and the child devices exist
stm32_adc_remove(g, sp, q, ch, c, dom, kids) ==
    LET ir == stm32_adc_irq_remove(q, ch)
    IN  [hs |-> sp.hs, bak |-> sp.bak, start |-> g.start,
         stop |-> StopRec(g.hs, sp), domain |-> ir.domain,
         chained |-> ir.chained, children |-> FALSE,
         steps |-> <<Step("depopulate", g.on, dom, kids),
                     Step("irq_remove", g.on, dom, FALSE),
                     Step("hw_stop", g.on, ir.domain, FALSE)>>]

NoHwIn == [fail |-> "none", err |-> 0, vdda_uv |-> 0, vdd_uv |-> 0]

Remove ==
    /\ pm \in {"active", "suspended"}
    /\ \E hin \in (IF pm = "suspended" THEN HwIn(cfg) ELSE {NoHwIn}) :
        \E g \in {remove_get_sync(PrivHs, cfg, hin, ccr_bak, pm = "suspended")} :
        \E sp \in {stm32_adc_core_hw_stop(Relog(g.hs), cfg)} :
        \E o \in {stm32_adc_remove(g, sp, irq, chained, cfg, domain, children)} :
              /\ SetHs(o.hs)
              /\ ccr_bak' = o.bak
              /\ start_call' = o.start
              /\ stop_call' = o.stop
              /\ domain' = o.domain
              /\ chained' = o.chained
              /\ children' = o.children
              /\ life' = o.steps
    /\ pm' = "unbound"
    /\ saved' = -1
    /\ start_fails' = 0
    /\ lost' = FALSE
    /\ UNCHANGED <<cfg, td, common_rate, clk_call, irqvars, probe_call, probes,
                   irq>>

Next ==
    Probe \/ ChildCcrWrite \/ RuntimeSuspend \/ CcrLost \/ RuntimeResume \/ Remove

Spec == Init /\ [][Next]_vars

(***************************************************************************)
(* hw_start and hw_stop on every configuration probe can come to: one      *)
(* hw_start, then one hw_stop (which remove runs even after the hw_start   *)
(* of its resume failed).                                                  *)
(***************************************************************************)
\* the voltages regulator_get_voltage() reports here, around the 2.7V threshold
PolicyVdda == {2600000, 2700000, 2700001, 2800000}
PolicyVdd == {2500000, 2699999, 2700000, 2800000}

HwVdda(c) == IF c.vdda /\ c.vbooster THEN PolicyVdda ELSE {0}
HwVdd(c) == IF c.vdda /\ c.vbooster /\ use_vdd(c) THEN PolicyVdd ELSE {0}

\* the answers of the providers to one hw_start, with the voltages of A and D
HwInOf(c, A, D) ==
    {[fail |-> "none", err |-> 0, vdda_uv |-> a, vdd_uv |-> d] :
        a \in A, d \in D}
    \cup
    {[fail |-> f, err |-> e, vdda_uv |-> 0, vdd_uv |-> 0] :
        f \in HwFails(c) \cap {"vdda_en", "vdda_get"}, e \in Errs}
    \cup
    {[fail |-> f, err |-> e, vdda_uv |-> a, vdd_uv |-> 0] :
        f \in HwFails(c) \cap {"vdd_en", "vdd_get"}, e \in Errs, a \in A}
    \cup
    {[fail |-> f, err |-> e, vdda_uv |-> a, vdd_uv |-> d] :
        f \in HwFails(c) \ {"vdda_en", "vdda_get", "vdd_en", "vdd_get"},
        e \in Errs, a \in A, d \in D}

\* every set of optional resources stm32_adc_syscfg_probe accepts
HwConfigs == {c \in Configs : stm32_adc_syscfg_probe(c) = 0}

HwInit ==
    /\ cfg \in HwConfigs
    /\ ccr = 0
    /\ common_rate = 0
    /\ clk_call = NoCall
    /\ csr = 0
    /\ ier = [i \in 0..2 |-> FALSE]
    /\ IrqIdle
    /\ en = [r \in Resources |-> 0]
    /\ booster \in BOOLEAN
    /\ anasw = booster
    /\ ccr_bak = BIT(23) + BIT(17) + BIT(8)
    /\ pm = "suspended"
    /\ saved = -1
    /\ start_fails = 0
    /\ lost = FALSE
    /\ start_call = NoCall
    /\ stop_call = NoCall
    /\ probe_call = NoCall
    /\ probes = 0
    /\ irq = [i \in 0..2 |-> 0]
    /\ domain = FALSE
    /\ chained = [i \in 0..2 |-> FALSE]
    /\ children = FALSE
    /\ td = NoTeardown
    /\ life = << >>

\* stm32_adc_core_hw_start
HwStart ==
    /\ ~start_call.done
    /\ \E hin \in HwInOf(cfg, HwVdda(cfg), HwVdd(cfg)) :
       \E r \in {stm32_adc_core_hw_start(PrivHs, cfg, hin, ccr_bak)} :
          /\ SetHs(r.hs)
          /\ start_call' = StartRec(PrivHs, ccr_bak, hin, r)
          /\ pm' = IF r.ret = 0 THEN "active" ELSE "suspended"
    /\ UNCHANGED <<cfg, td, life, common_rate, clk_call,
                   irqvars, ccr_bak, saved,
                   start_fails, lost, stop_call, probe_call, probes, irq,
                   domain, chained, children>>

\* stm32_adc_core_hw_stop
HwStop ==
    /\ start_call.done
    /\ ~stop_call.done
    /\ \E sp \in {stm32_adc_core_hw_stop(PrivHs, cfg)} :
          /\ SetHs(sp.hs)
          /\ ccr_bak' = sp.bak
          /\ stop_call' = StopRec(PrivHs, sp)
    /\ pm' = "suspended"
    /\ UNCHANGED <<cfg, td, life, common_rate, clk_call,
                   irqvars, saved, start_fails,
                   lost, start_call, probe_call, probes, irq, domain, chained,
                   children>>

HwNext == HwStart \/ HwStop

SpecHw == HwInit /\ [][HwNext]_vars

(***************************************************************************)
(* Teardown of the interrupt demultiplexer, called in every state an       *)
(* installation can leave, up to MaxTeardowns times.                       *)
(***************************************************************************)
LineHasIrq(e) == e[3] >= 0

\* the calls stm32_adc_irq_remove makes; dom is the state of the domain
\* priv->domain points to ("null": no domain, "live", "freed") and q is
\* priv->irq[]
stm32_adc_irq_remove_ops(dom, q) ==
    [h \in 1..DomainSize |-> <<"dispose_mapping", dom, h - 1>>]
        \o << <<"domain_remove", dom>> >>
        \o SelectSeq([i \in 1..STM32_ADC_MAX_ADCS |->
                          <<"set_chained_handler", i - 1, q[i - 1]>>],
                     LineHasIrq)

\* what irq_domain_remove() can do with such a pointer: it frees a live domain,
\* dereferences a NULL one, and reads and frees again a freed one, which goes
\* unnoticed or not
TeardownFaults(dom) ==
    IF dom = "live" THEN {"none"}
    ELSE IF dom = "null" THEN {"null_deref"}
    ELSE {"none", "use_after_free"}

\* the compatibles and their clocks; no switch supply
TdConfigs == ClkConfigs

TdInit ==
    /\ cfg \in TdConfigs
    /\ ccr = 0
    /\ common_rate = 0
    /\ clk_call = NoCall
    /\ csr = 0
    /\ ier = [i \in 0..2 |-> FALSE]
    /\ IrqIdle
    /\ PwrIdle

\* stm32_adc_irq_probe on the zeroed private data
TdInstall ==
    /\ td.installs = 0
    /\ td.calls = 0
    /\ \E res \in ProbeIrqs, nodomain \in BOOLEAN :
       \E ip \in {stm32_adc_irq_probe(res, nodomain, chained)} :
          /\ irq' = ip.irq
          /\ domain' = ip.domain
          /\ chained' = ip.chained
          /\ td' = [td EXCEPT !.installs = 1,
                              !.dom = IF ip.domain THEN "live" ELSE "null"]
    /\ UNCHANGED <<cfg, life, clkvars, irqvars, en, booster, anasw, ccr_bak, pm,
                   saved, start_fails, lost, start_call, stop_call, probe_call,
                   probes, children>>

\* stm32_adc_irq_remove, after an installation or on the zeroed private data;
\* priv->domain is left as it is, and a NULL dereference ends the call
TdRemove ==
    /\ td.calls < MaxTeardowns
    /\ td.fault = "none"
    /\ \E ir \in {stm32_adc_irq_remove(irq, chained)},
          f \in TeardownFaults(td.dom) :
          /\ domain' = ir.domain
          /\ chained' = ir.chained
          /\ td' = [td EXCEPT
                      !.calls = @ + 1,
                      !.ops = IF f = "null_deref"
                              THEN SubSeq(stm32_adc_irq_remove_ops(td.dom, irq),
                                          1, DomainSize + 1)
                              ELSE stm32_adc_irq_remove_ops(td.dom, irq),
                      !.dom = IF @ = "live" THEN "freed" ELSE @,
                      !.fault = f,
                      !.first = IF td.calls = 0
                                THEN <<ir.chained, ir.domain>> ELSE @]
    /\ UNCHANGED <<cfg, life, clkvars, irqvars, en, booster, anasw, ccr_bak, pm,
                   saved, start_fails, lost, start_call, stop_call, probe_call,
                   probes, irq, children>>

TdNext == TdInstall \/ TdRemove

SpecTd == TdInit /\ [][TdNext]_vars

(***************************************************************************)
(* The handlers of several physical lines.  stm32_adc_irq_probe chains the *)
(* same handler on every line it acquired; an invocation on a line reads   *)
(* the status, then makes the six tests of the handler.  Up to             *)
(* MaxCompletions conversions complete and up to MaxDispatches invocations *)
(* are made, on any lines, one inside the other's run or after it.         *)
(***************************************************************************)
\* mutant: a handler looks only at the instance of the line it serves
stm32_adc_irq_handler_own(line, regs, status, ierv) ==
    LET Fires(k) == /\ irq_test(regs, irq_checks[k], status, ierv).fire
                    /\ irq_checks[k].adc = line
        made == SelectSeq([k \in 1..Len(irq_checks) |-> k], Fires)
    IN  [n \in 1..Len(made) |-> irq_checks[made[n]].hwirq]

\* the six tests of stm32_adc_irq_handler on the status it read: the hwirq
\* numbers handed to generic_handle_irq(), in order; line is the physical
\* line the descriptor belongs to
stm32_adc_irq_handler(line, regs, status, ierv) ==
    LET Fires(k) == irq_test(regs, irq_checks[k], status, ierv).fire
        made == SelectSeq([k \in 1..Len(irq_checks) |-> k], Fires)
    IN  [n \in 1..Len(made) |-> irq_checks[made[n]].hwirq]

MpInit ==
    /\ cfg \in IrqConfigs
    /\ ccr = 0
    /\ common_rate = 0
    /\ clk_call = NoCall
    /\ csr = 0
    /\ ier \in {[i \in 0..2 |-> b] : b \in BOOLEAN}
    /\ IrqIdle
    /\ PwrIdle

\* stm32_adc_irq_probe
MpInstall ==
    /\ ~mp.installed
    /\ \E res \in ProbeIrqs, nodomain \in BOOLEAN :
       \E ip \in {stm32_adc_irq_probe(res, nodomain, chained)} :
          /\ irq' = ip.irq
          /\ domain' = ip.domain
          /\ chained' = ip.chained
    /\ mp' = [mp EXCEPT !.installed = TRUE]
    /\ UNCHANGED <<cfg, td, life, clkvars, csr, ier, h_pc, h_status, h_en,
                   delivered, en, booster, anasw, ccr_bak, pm, saved,
                   start_fails, lost, start_call, stop_call, probe_call,
                   probes, children>>

\* a regular conversion of an instance completes: its EOC flag is raised
MpComplete ==
    /\ domain
    /\ mp.raised < MaxCompletions
    /\ \E adc \in 0..(STM32_ADC_MAX_ADCS - 1) :
          /\ EocFlag(cfg.variant, adc) # 0
          /\ BitAnd(csr, EocFlag(cfg.variant, adc)) = 0
          /\ csr' = csr + EocFlag(cfg.variant, adc)
    /\ mp' = [mp EXCEPT !.raised = @ + 1]
    /\ UNCHANGED <<cfg, clkvars, pwrvars, ier, h_pc, h_status, h_en, delivered>>

\* the handler chained on physical line p is invoked and reads the status
MpEnter ==
    /\ mp.runs < MaxDispatches
    /\ \E p \in 0..(STM32_ADC_MAX_ADCS - 1) :
          /\ chained[p]
          /\ mp.ctx[p].pc = 0
          /\ mp' = [mp EXCEPT !.runs = @ + 1,
                              !.ctx[p] = [pc |-> 1, status |-> csr,
                                          out |-> << >>, ran |-> FALSE]]
    /\ UNCHANGED <<cfg, clkvars, pwrvars, csr, ier, h_pc, h_status, h_en,
                   delivered>>

\* the rest of that invocation: the six tests and chained_irq_exit()
MpDispatch ==
    /\ \E p \in 0..(STM32_ADC_MAX_ADCS - 1) :
          /\ mp.ctx[p].pc = 1
          /\ \E out \in {stm32_adc_irq_handler(p, regs_of(cfg.variant),
                                               mp.ctx[p].status, ier)} :
                mp' = [mp EXCEPT !.ctx[p].pc = 0, !.ctx[p].out = out,
                                 !.ctx[p].ran = TRUE]
    /\ UNCHANGED <<cfg, clkvars, pwrvars, csr, ier, h_pc, h_status, h_en,
                   delivered>>

\* the data register of an instance is read, which clears its EOC flag
MpRead ==
    /\ \E adc \in 0..(STM32_ADC_MAX_ADCS - 1) :
          /\ BitAnd(csr, EocFlag(cfg.variant, adc)) # 0
          /\ csr' = BitClear(csr, EocFlag(cfg.variant, adc))
    /\ UNCHANGED <<cfg, clkvars, pwrvars, mp, ier, h_pc, h_status, h_en,
                   delivered>>

MpNext == MpInstall \/ MpComplete \/ MpEnter \/ MpDispatch \/ MpRead

SpecMp == MpInit /\ [][MpNext]_vars

(***************************************************************************)
(* Power sequencing claims, checked under Spec.                            *)
(***************************************************************************)
Reverse(q) == [i \in 1..Len(q) |-> q[Len(q) + 1 - i]]

IsFailure(e) == e[1] \in {"enable_fail", "get_voltage_fail", "write_fail"}
IsDo(e) == e[1] \in {"enable", "update_bits", "write"}
IsUndo(e) == e[1] \in {"disable", "update_bits", "write"}
IsCcrWrite(e) == e[1] = "write_ccr"

\* the regulator, clock or syscfg cell a log entry acts on
StepOf(e) ==
    IF e[2] = "vbooster_clr" THEN "vbooster"
    ELSE IF e[2] = "anaswvdd_clr" THEN "anaswvdd"
    ELSE e[2]

StepsOf(q) == [i \in 1..Len(q) |-> StepOf(q[i])]

\* where the failing step is in the log of a failed hw_start
FailedAt(q) == Min({i \in 1..Len(q) : IsFailure(q[i])})

\* the steps that succeeded before the failure, and the steps undone after it
DoneSteps(q) == StepsOf(SelectSeq(SubSeq(q, 1, FailedAt(q) - 1), IsDo))
UndoneSteps(q) == StepsOf(SelectSeq(SubSeq(q, FailedAt(q) + 1, Len(q)), IsUndo))

\* the last hw_start call failed
StartFailed == start_call.done /\ start_call.ret # 0

\* nothing ran after the failed hw_start: a failed runtime resume, or a probe
\* that failed in hw_start
StartFailedLast ==
    /\ StartFailed
    /\ \/ pm = "suspended"
       \/ pm = "unbound" /\ probe_call.done /\ probe_call.stage = "hw_start"
                         /\ probe_call.ret = start_call.ret

\* C1: a failed hw_start disables exactly the steps that had succeeded, in
\* reverse order, does not write the control register and returns the error of
\* the failing step; every regulator and clock is enabled as many times as
\* before the call, and after a failure past the switch-supply sub-sequence
\* (such as the bus clock enable) vref is disabled and the switches are off.
C1_Rollback ==
    /\ StartFailed =>
        /\ start_call.ret = start_call.in.err
        /\ SelectSeq(start_call.log, IsCcrWrite) = << >>
        /\ Cardinality({i \in 1..Len(start_call.log) :
                            IsFailure(start_call.log[i])}) = 1
        /\ UndoneSteps(start_call.log) = Reverse(DoneSteps(start_call.log))
    /\ StartFailedLast =>
        /\ en = start_call.en0
        /\ start_call.in.fail \in {"vref_en", "bclk_en", "aclk_en"}
              => ~booster /\ ~anasw

\* C1 witness: on a board with the switch-supply sub-sequence, a runtime resume
\* failed at the bus clock enable after vdda, vdd, the booster write, the
\* anaswvdd write and vref had succeeded, and all five were undone.
C1_Witness ==
    /\ StartFailedLast
    /\ pm = "suspended"
    /\ start_call.in.fail = "bclk_en"
    /\ DoneSteps(start_call.log) = <<"vdda", "vdd", "vbooster", "anaswvdd", "vref">>
    /\ UndoneSteps(start_call.log) = <<"vref", "anaswvdd", "vbooster", "vdd", "vdda">>
    /\ en = start_call.en0
    /\ start_call.ret = start_call.in.err

\* C2 as stated: over every sequence of probe, runtime suspend/resume and
\* remove, no regulator and no clock is disabled by the core more times than
\* the core enabled it.
C2_NeverOverDisabled == \A r \in Resources : en[r] >= 0

\* C2 divergence: remove ran hw_stop after the resume it asked for had failed
\* and rolled itself back, and vref went below zero enables.
C2_OverDisabled ==
    /\ pm = "unbound"
    /\ StartFailed
    /\ stop_call.done
    /\ stop_call.en0 = start_call.en0
    /\ en["vref"] < 0

\* C3: a successful hw_start after an hw_stop leaves the control register
\* equal, in all bits, to the value hw_stop read, whatever the register held
\* while stopped and however many hw_start attempts failed in between; the
\* hw_start is the runtime resume, or the resume remove asks for (then the
\* value is what the hw_stop of remove reads next).
C3_RoundTrip ==
    [][(pm = "suspended" /\ start_call'.done /\ start_call'.ret = 0)
          => IF pm' = "active" THEN ccr' = saved ELSE stop_call'.ccr0 = saved]_vars

\* C3 witness: the device is active again after a stop that read a value with
\* bits outside the clock fields, the register changed while stopped, a resume
\* failed in between, and the register holds the value read at the stop.
C3_Witness ==
    /\ pm = "active"
    /\ start_call.done
    /\ start_call.ret = 0
    /\ saved = ccr
    /\ BitAnd(saved, ChildCcrBit) # 0
    /\ start_call.ccr0 # saved
    /\ lost
    /\ start_fails > 0

(***************************************************************************)
(* Probe and interrupt installation claims, checked under Spec.            *)
(***************************************************************************)
\* the last call was a probe that failed after its hw_start had succeeded
ProbeFailedAfterStart ==
    /\ probe_call.done
    /\ probe_call.ret # 0
    /\ probe_call.stage # "hw_start"

\* platform_get_irq() failed for line i in a way irq_probe does not skip
FatalLine(i) == irq[i] < 0 /\ (i = 0 \/ irq[i] # -ENXIO)

\* the error of the step the probe failed at
FailingStepError ==
    CASE probe_call.stage \in {"vref_get", "triggers", "populate"} -> probe_call.in.err
      [] probe_call.stage = "clk_sel" -> clk_call.ret
      [] probe_call.stage = "irq_probe" ->
            IF \E i \in 0..2 : FatalLine(i)
            THEN irq[CHOOSE i \in 0..2 : FatalLine(i)]
            ELSE -ENOMEM

\* C12: when probe fails after hw_start succeeded, every regulator and clock
\* is back to the enable count it had before the probe, the interrupt domain
\* does not exist, no line has a chained handler, no child is populated, and
\* the probe returns the error of the failing step.
C12_ProbeAllOrNothing ==
    ProbeFailedAfterStart =>
        /\ start_call.done /\ start_call.ret = 0
        /\ stop_call.done
        /\ en = start_call.en0
        /\ ~domain
        /\ \A i \in 0..2 : ~chained[i]
        /\ ~children
        /\ probe_call.ret < 0
        /\ probe_call.ret = FailingStepError

\* C12 witness: child population failed after the handlers had been installed
\* on the three lines; everything is undone.
C12_Witness ==
    /\ ProbeFailedAfterStart
    /\ probe_call.stage = "populate"
    /\ \A i \in 0..2 : irq[i] > 0 /\ ~chained[i]
    /\ en = start_call.en0
    /\ Len(stop_call.log) > 1
    /\ probe_call.ret = -ENODEV

\* probe got as far as stm32_adc_irq_probe
IrqProbeReached ==
    /\ probe_call.done
    /\ probe_call.stage \in {"irq_probe", "triggers", "populate", "none"}

InstallFailed == probe_call.stage = "irq_probe"

\* what platform_get_irq() answered for line i
Acquired(i) == probe_call.in.irqs[i] = "ok"
OtherError(i) == probe_call.in.irqs[i] = "err"

\* the device is bound: the installation of its probe is in place
Bound == probe_call.done /\ probe_call.ret = 0 /\ pm # "unbound"

\* what holds of an installation whatever made it fail or succeed
InstallOutcome ==
    /\ InstallFailed => ~domain /\ \A i \in 0..2 : ~chained[i]
    /\ Bound => domain /\ \A i \in 0..2 : chained[i] <=> Acquired(i)

\* C13 as stated: installation fails when line 0 cannot be acquired and
\* succeeds whenever line 0 is acquired; a failure leaves no domain and no
\* chained handler, a success has a handler on exactly the acquired lines.
C13_Original ==
    IrqProbeReached =>
        /\ InstallFailed <=> ~Acquired(0)
        /\ InstallOutcome

\* C13 amended: installation fails when line 0 cannot be acquired, when line
\* 1 or 2 fails with an error other than -ENXIO, or when the domain cannot be
\* allocated (-ENOMEM); otherwise it succeeds, whether or not lines 1 and 2
\* exist; a failure leaves no domain and no chained handler and returns the
\* failing call's error, a success has a handler on exactly the acquired lines.
C13_Amended ==
    IrqProbeReached =>
        /\ InstallFailed <=>
              \/ ~Acquired(0)
              \/ OtherError(1) \/ OtherError(2)
              \/ probe_call.in.pfail = "domain"
        /\ InstallFailed => probe_call.ret = FailingStepError
        /\ InstallOutcome

\* C13 witness: line 0 and line 2 acquired, line 1 absent: the device is bound
\* with handlers on lines 0 and 2 only.
C13_Witness ==
    /\ Bound
    /\ Acquired(0) /\ ~Acquired(1) /\ Acquired(2)
    /\ domain
    /\ chained = [i \in 0..2 |-> i # 1]

\* the position in life of the call op (0: the call was not made)
StepAt(op) ==
    IF \E k \in 1..Len(life) : life[k].op = op
    THEN Min({k \in 1..Len(life) : life[k].op = op})
    ELSE 0

\* the call a was made, and made before the call b if that was made too
Before(a, b) == StepAt(b) # 0 => (StepAt(a) # 0 /\ StepAt(a) < StepAt(b))

\* the last call was a remove
Removed == Len(life) > 0 /\ life[1].op = "depopulate"

\* C22: probe selects the clock only after a hw_start that left every clock
\* enabled, and populates the children only after the interrupt demultiplexer
\* is installed; remove depopulates the children, then removes the
\* demultiplexer, then stops the hardware; no call of either is made with a
\* child but no domain, and in no state is there a child without the domain.
C22_LifecycleOrder ==
    /\ children => domain
    /\ \A k \in 1..Len(life) : life[k].children => life[k].domain
    /\ Before("hw_start", "clk_sel")
    /\ StepAt("clk_sel") # 0 => life[StepAt("clk_sel")].clocks
    /\ Before("clk_sel", "irq_probe")
    /\ Before("irq_probe", "populate")
    /\ StepAt("populate") # 0 => life[StepAt("populate")].domain
    /\ Removed =>
          /\ [k \in 1..Len(life) |-> life[k].op] =
                <<"depopulate", "irq_remove", "hw_stop">>
          /\ ~life[2].children
          /\ ~life[3].children /\ ~life[3].domain

\* C22 witness: a probe that populated the children was followed by a remove
\* that found the children and the domain, and removed them in that order.
C22_Witness ==
    /\ probe_call.done /\ probe_call.ret = 0
    /\ Removed
    /\ life[1].children /\ life[1].domain
    /\ life[2].domain /\ ~life[2].children
    /\ ~life[3].domain
    /\ ~children /\ ~domain

(***************************************************************************)
(* hw_start and hw_stop claims, checked under SpecHw.                      *)
(***************************************************************************)
\* the switch-supply sub-sequence is performed with this configuration
SwitchesConfigured == cfg.vdda /\ cfg.vbooster

\* the last hw_start succeeded and nothing ran since
StartedLast == start_call.done /\ start_call.ret = 0 /\ ~stop_call.done

\* the select voltage the decision uses: 0 when vdd or its cell is missing
SelectUv == IF use_vdd(cfg) THEN start_call.in.vdd_uv ELSE 0

HasEntry(q, e) == \E i \in 1..Len(q) : q[i] = e

\* what the enable sub-sequence decided, from the register writes it made
BoosterOn == HasEntry(start_call.log, <<"update_bits", "vbooster", TRUE>>)
SelectOn == HasEntry(start_call.log, <<"update_bits", "anaswvdd", TRUE>>)

\* C11: the switch-supply enable turns the booster on exactly when
\* vdda <= 2700000 and vdd < 2700000, and the switch-select on exactly when
\* vdda <= 2700000 and vdd >= 2700000 (vdd being 0 when the select regulator
\* or its cell is not configured); above 2700000 both are off.  The bits in
\* SYSCFG are as decided.
C11_VoltagePolicy ==
    (StartedLast /\ SwitchesConfigured) =>
        /\ BoosterOn <=> (start_call.in.vdda_uv <= 2700000 /\ SelectUv < 2700000)
        /\ SelectOn <=> (start_call.in.vdda_uv <= 2700000 /\ SelectUv >= 2700000)
        /\ booster = BoosterOn
        /\ cfg.anaswvdd => anasw = SelectOn

\* C11 witness: vdda 2.6V and vdd 2.8V: booster off, switches on vdd.
C11_Witness ==
    /\ StartedLast
    /\ SwitchesConfigured
    /\ start_call.in.vdda_uv = 2600000
    /\ start_call.in.vdd_uv = 2800000
    /\ use_vdd(cfg)
    /\ ~booster
    /\ anasw

\* a call on a regulator or syscfg cell of the switch supply, or its wait
IsSwitchOp(e) ==
    \/ e[1] = "usleep_range"
    \/ /\ e[1] \in {"enable", "enable_fail", "disable", "get_voltage",
                    "get_voltage_fail", "update_bits", "write", "write_fail"}
       /\ e[2] \in {"vdda", "vdd", "vbooster", "vbooster_clr",
                    "anaswvdd", "anaswvdd_clr"}

\* C15: without vdda or without the booster cell, the switch-supply enable
\* does nothing and succeeds (hw_start goes on to vref), and the disable does
\* nothing: no call on vdda, vdd or any booster/switch-select cell is made,
\* their enable counts and bits stay as they were, whatever else is configured.
C15_SwitchesNoOp ==
    ~SwitchesConfigured =>
        /\ start_call.done =>
              /\ SelectSeq(start_call.log, IsSwitchOp) = << >>
              /\ start_call.log[1][2] = "vref"
              /\ <<booster, anasw>> = start_call.sw0
        /\ stop_call.done =>
              /\ SelectSeq(stop_call.log, IsSwitchOp) = << >>
              /\ <<booster, anasw>> = stop_call.sw0
        /\ en["vdda"] = 0
        /\ en["vdd"] = 0

\* C15 witness: vdda, vdd and the switch-select cell are configured, the
\* booster cell is not; hw_start and hw_stop ran and the bits set before are
\* still set.
C15_Witness ==
    /\ ~SwitchesConfigured
    /\ cfg.vdda /\ cfg.vdd /\ cfg.anaswvdd
    /\ start_call.done /\ start_call.ret = 0
    /\ stop_call.done
    /\ booster /\ anasw
    /\ en = [r \in Resources |-> 0]

\* the place of a call in the enable order; 0 for a call that is no step of
\* a successful hw_start
StartRank(e) ==
    CASE e = <<"enable", "vdda">> -> 1
      [] e = <<"get_voltage", "vdda">> -> 2
      [] e = <<"enable", "vdd">> -> 3
      [] e = <<"get_voltage", "vdd">> -> 4
      [] e[1] = "update_bits" /\ e[2] = "vbooster" -> 5
      [] e = <<"write", "vbooster_clr", FALSE>> -> 5
      [] e = <<"usleep_range">> -> 6
      [] e[1] = "update_bits" /\ e[2] = "anaswvdd" -> 7
      [] e = <<"write", "anaswvdd_clr", FALSE>> -> 7
      [] e = <<"enable", "vref">> -> 8
      [] e = <<"enable", "bclk">> -> 9
      [] e = <<"enable", "aclk">> -> 10
      [] e[1] = "write_ccr" -> 11
      [] OTHER -> 0

HasRank(q, n) == \E i \in 1..Len(q) : StartRank(q[i]) = n

\* C16: a successful hw_start makes its calls in the enable order, each at
\* most once: the switch supply (with the wait right after the booster was
\* turned on, before the switch-select write), vref, the bus clock iff there
\* is one, the analog clock iff there is one, and last the write of the
\* backed-up value to the control register, with every present clock enabled.
C16_StartOrder ==
    (start_call.done /\ start_call.ret = 0) =>
        LET q == start_call.log IN
        /\ \A i \in 1..Len(q) : StartRank(q[i]) > 0
        /\ \A i \in 1..Len(q) - 1 : StartRank(q[i]) < StartRank(q[i + 1])
        /\ HasRank(q, 1) <=> SwitchesConfigured
        /\ HasRank(q, 6) <=> BoosterOn
        /\ \A i \in 1..Len(q) :
              (q[i] = <<"update_bits", "vbooster", TRUE>>) =>
                  q[i + 1] = <<"usleep_range">>
        /\ HasRank(q, 8)
        /\ HasRank(q, 9) <=> cfg.bclk
        /\ HasRank(q, 10) <=> cfg.aclk
        /\ q[Len(q)] = <<"write_ccr", start_call.bak>>
        /\ StartedLast =>
              /\ ccr = start_call.bak
              /\ cfg.bclk => en["bclk"] > 0
              /\ cfg.aclk => en["aclk"] > 0
              /\ en["vref"] > 0

\* C16 witness: a successful hw_start that turned the booster on, waited,
\* wrote the switch-select cell and enabled both clocks before the write.
C16_Witness ==
    /\ StartedLast
    /\ BoosterOn
    /\ HasRank(start_call.log, 6)
    /\ HasRank(start_call.log, 7)
    /\ HasRank(start_call.log, 9)
    /\ HasRank(start_call.log, 10)
    /\ ccr = start_call.bak
    /\ ccr # start_call.ccr0

\* the place of a call in the disable order; 0 for a call that is no step
\* of hw_stop
StopRank(e) ==
    CASE e[1] = "read_ccr" -> 1
      [] e = <<"disable", "aclk">> -> 2
      [] e = <<"disable", "bclk">> -> 3
      [] e = <<"disable", "vref">> -> 4
      [] e = <<"update_bits", "anaswvdd", FALSE>> -> 5
      [] e = <<"write", "anaswvdd_clr", FALSE>> -> 5
      [] e = <<"update_bits", "vbooster", FALSE>> -> 6
      [] e = <<"write", "vbooster_clr", FALSE>> -> 6
      [] e = <<"disable", "vdd">> -> 7
      [] e = <<"disable", "vdda">> -> 8
      [] OTHER -> 0

HasStopRank(q, n) == \E i \in 1..Len(q) : StopRank(q[i]) = n

IsEnable(e) == e[1] = "enable"
IsDisable(e) == e[1] = "disable"

\* the regulators and clocks a log enables or disables, in call order
Subjects(q) == [i \in 1..Len(q) |-> q[i][2]]
EnabledBy(q) == Subjects(SelectSeq(q, IsEnable))
DisabledBy(q) == Subjects(SelectSeq(q, IsDisable))

\* C17: hw_stop first reads the control register and stores the value read,
\* then makes its calls in the disable order, each at most once: analog clock
\* iff present, bus clock iff present, vref, switch-select clear iff its cell
\* is configured, booster clear, select regulator, monitoring regulator; after
\* a successful hw_start it disables exactly what that hw_start enabled, in
\* the reverse order, so the select regulator only if it had been enabled.
C17_StopOrder ==
    stop_call.done =>
        LET q == stop_call.log IN
        /\ q[1] = <<"read_ccr", stop_call.ccr0>>
        /\ ccr_bak = stop_call.ccr0
        /\ \A i \in 1..Len(q) : StopRank(q[i]) > 0
        /\ \A i \in 1..Len(q) - 1 : StopRank(q[i]) < StopRank(q[i + 1])
        /\ HasStopRank(q, 2) <=> cfg.aclk
        /\ HasStopRank(q, 3) <=> cfg.bclk
        /\ HasStopRank(q, 4)
        /\ HasStopRank(q, 5) <=> (SwitchesConfigured /\ cfg.anaswvdd)
        /\ HasStopRank(q, 6) <=> SwitchesConfigured
        /\ HasStopRank(q, 8) <=> SwitchesConfigured
        /\ SwitchesConfigured => ~booster
        /\ (SwitchesConfigured /\ cfg.anaswvdd) => ~anasw
        /\ start_call.ret = 0 =>
              /\ DisabledBy(q) = Reverse(EnabledBy(start_call.log))
              /\ HasStopRank(q, 7) <=>
                    HasEntry(start_call.log, <<"enable", "vdd">>)
              /\ en = start_call.en0

\* C17 witness: hw_stop after a successful hw_start on a configuration with
\* both clocks, the switch-select cell and the select regulator: all eight
\* steps were made and the stored value is the one hw_start had written.
C17_Witness ==
    /\ stop_call.done
    /\ start_call.ret = 0
    /\ \A n \in 1..8 : HasStopRank(stop_call.log, n)
    /\ Len(DisabledBy(stop_call.log)) = 5
    /\ ccr_bak = start_call.bak
    /\ en = [r \in Resources |-> 0]

\* the failures inside the enable sub-sequence that have something to undo
SwitchFails == {"vdda_get", "vdd_en", "vdd_get", "booster_wr", "anasw_wr"}

\* the calls hw_start made after the failing one
RollbackTail(q) == SubSeq(q, FailedAt(q) + 1, Len(q))

\* the call that clears the booster: the clear cell when there is one
BoosterClear ==
    IF cfg.vbooster_clr THEN <<"write", "vbooster_clr", FALSE>>
    ELSE <<"update_bits", "vbooster", FALSE>>

\* the disable of the select regulator, iff hw_start had enabled it
VddUndo ==
    IF HasEntry(start_call.log, <<"enable", "vdd">>)
    THEN << <<"disable", "vdd">> >>
    ELSE << >>

\* C18: a failure inside the switch-supply enable sub-sequence returns the
\* failed call's error, goes no further (vref and the clocks are not touched)
\* and undoes in reverse: a failed switch-select write clears the booster
\* (clear cell if present, else a write of 0), then the select regulator is
\* disabled iff it had been enabled, then the monitoring regulator; vdda and
\* vdd end up enabled as many times as before the call.
C18_SwitchRollback ==
    (start_call.done /\ start_call.in.fail \in SwitchFails) =>
        LET q == start_call.log
            f == start_call.in.fail
            vdda_dis == << <<"disable", "vdda">> >>
        IN
        /\ start_call.ret = start_call.in.err
        /\ start_call.ret < 0
        /\ \A i \in 1..Len(q) : IsSwitchOp(q[i])
        /\ RollbackTail(q) =
              CASE f = "vdda_get" -> vdda_dis
                [] f = "vdd_en" -> vdda_dis
                [] f = "vdd_get" -> << <<"disable", "vdd">> >> \o vdda_dis
                [] f = "booster_wr" -> VddUndo \o vdda_dis
                [] f = "anasw_wr" -> <<BoosterClear>> \o VddUndo \o vdda_dis
        /\ ~stop_call.done =>
              /\ en = start_call.en0
              /\ f = "anasw_wr" => ~booster

\* C18 witness: the switch-select write failed after the select regulator was
\* enabled and the booster turned on; the booster was cleared through its
\* clear cell and both regulators were disabled.
C18_Witness ==
    /\ start_call.done /\ ~stop_call.done
    /\ start_call.in.fail = "anasw_wr"
    /\ BoosterOn
    /\ cfg.vbooster_clr
    /\ RollbackTail(start_call.log) =
          << <<"write", "vbooster_clr", FALSE>>, <<"disable", "vdd">>,
             <<"disable", "vdda">> >>
    /\ ~booster
    /\ en = start_call.en0

\* C23: a switch-supply enable that succeeded with the feature configured
\* never requested the booster and the switch-select together, requested the
\* switch-select only with both the select regulator and the switch-select
\* cell configured, and left at most one of the two bits set when the cell
\* exists.
C23_BoosterXorSelect ==
    (start_call.done /\ start_call.ret = 0 /\ SwitchesConfigured) =>
        /\ ~(BoosterOn /\ SelectOn)
        /\ SelectOn => (cfg.vdd /\ cfg.anaswvdd)
        /\ (StartedLast /\ cfg.anaswvdd) => ~(booster /\ anasw)

\* C23 witness: both bits were set before hw_start; with vdd below 2.7V the
\* booster was requested and the switch-select cleared.
C23_Witness ==
    /\ StartedLast
    /\ SwitchesConfigured
    /\ use_vdd(cfg)
    /\ start_call.sw0 = <<TRUE, TRUE>>
    /\ BoosterOn /\ ~SelectOn
    /\ booster /\ ~anasw

(***************************************************************************)
(* Teardown claims, checked under SpecTd.                                  *)
(***************************************************************************)
IsDomainOp(e) == e[1] \in {"dispose_mapping", "domain_remove"}
IsDetach(e) == e[1] = "set_chained_handler"

\* C14 as stated: whatever lines failed to acquire, teardown detaches handlers
\* only from acquired lines and works only on a live domain; a second call, or
\* a call after an installation that did not complete, performs no operation
\* on a released or missing domain, faults nowhere, and leaves the state as
\* after the first call.
C14_TeardownSafe ==
    td.calls >= 1 =>
        /\ \A k \in 1..Len(td.ops) :
              /\ IsDetach(td.ops[k]) => td.ops[k][3] > 0
              /\ IsDomainOp(td.ops[k]) => td.ops[k][2] = "live"
        /\ td.fault = "none"
        /\ td.calls >= 2 => <<chained, domain>> = td.first

\* C14 divergence: after a complete installation on three lines, the second
\* teardown call disposes mappings of, and removes, the domain the first call
\* freed.
C14_SecondCallOnFreed ==
    /\ td.installs = 1
    /\ td.calls = 2
    /\ \A i \in 0..2 : irq[i] > 0
    /\ HasEntry(td.ops, <<"domain_remove", "freed">>)
    /\ HasEntry(td.ops, <<"dispose_mapping", "freed", 0>>)

(***************************************************************************)
(* Clock selection claims (checked under SpecClk).                         *)
(***************************************************************************)
\* the divider tables as the specification states them
DividersA == <<2, 4, 6, 8>>
DividersAsync == <<1, 2, 4, 6, 8, 10, 12, 16, 32, 64, 128, 256>>
DividersSync == <<1, 2, 4>>

Fits(rate, d, max) == (rate \div d) <= max
SomeFits(rate, divs, max) == \E k \in 1..Len(divs) : Fits(rate, divs[k], max)
\* the first divider of the table that fits (0 when none does)
FirstFit(rate, divs, max) ==
    IF SomeFits(rate, divs, max)
    THEN divs[Min({k \in 1..Len(divs) : Fits(rate, divs[k], max)})]
    ELSE 0

VariantA == cfg.variant = "stm32f4"
VariantB == cfg.variant # "stm32f4"

\* the table the plan's source was scanned with, and the rate of that source
PlanTable ==
    IF VariantA THEN DividersA
    ELSE IF clk_call.plan.src = "aclk" THEN DividersAsync ELSE DividersSync
PlanSrcRate ==
    IF clk_call.plan.src = "aclk" THEN clk_call.in.arate ELSE clk_call.in.brate

ClkSucceeded == clk_call.done /\ clk_call.ret = 0

\* C4: whenever clock selection succeeds (either variant) the published rate is
\* source_rate / chosen_divider (integer division), it is <= the maximum rate,
\* the chosen divider belongs to the scanned table of the chosen source and
\* every divider before it in that table gives a rate > the maximum.
C4_SmallestDivider ==
    ClkSucceeded =>
        /\ \E k \in 1..Len(PlanTable) :
              /\ PlanTable[k] = clk_call.plan.div
              /\ \A j \in 1..(k - 1) :
                    (PlanSrcRate \div PlanTable[j]) > clk_call.in.max
        /\ common_rate = PlanSrcRate \div clk_call.plan.div
        /\ common_rate <= clk_call.in.max

\* a success in which dividers were skipped before the chosen one
C4_Witness ==
    /\ ClkSucceeded
    /\ VariantB
    /\ clk_call.plan.src = "aclk"
    /\ clk_call.plan.div = 32
    /\ common_rate < clk_call.in.arate

AsyncFits == clk_call.in.aclk
             /\ SomeFits(clk_call.in.arate, DividersAsync, clk_call.in.max)
SyncFits == SomeFits(clk_call.in.brate, DividersSync, clk_call.in.max)

PlanIsAsync == ClkSucceeded /\ clk_call.plan.src = "aclk" /\ clk_call.plan.ckmode = 0
PlanIsSync == ClkSucceeded /\ clk_call.plan.src = "bclk" /\ clk_call.plan.ckmode # 0

\* the source preference of variant B as the claim states it
C5_Preference ==
    /\ PlanIsAsync <=> AsyncFits
    /\ PlanIsAsync =>
          clk_call.plan.div =
              FirstFit(clk_call.in.arate, DividersAsync, clk_call.in.max)
    /\ (~AsyncFits /\ SyncFits) =>
          /\ PlanIsSync
          /\ clk_call.plan.div =
                 FirstFit(clk_call.in.brate, DividersSync, clk_call.in.max)
    /\ (clk_call.ret = -EINVAL) <=> (~AsyncFits /\ ~SyncFits)
    /\ (clk_call.in.aclk /\ clk_call.in.arate = 80000000
            /\ clk_call.in.max = 36000000) =>
          (PlanIsAsync /\ clk_call.plan.div = 4 /\ common_rate = 20000000)
    /\ (~clk_call.in.aclk /\ clk_call.in.brate = 200000000
            /\ clk_call.in.max = 36000000) =>
          clk_call.ret = -EINVAL

\* C5 (as claimed): in variant B the plan is async iff the analog clock is
\* present and some async divider fits, otherwise sync with the first fitting
\* prescaler, and the selection fails as unsatisfiable iff neither table fits,
\* for every input.
C5_Original == (clk_call.done /\ VariantB) => C5_Preference

\* the clocks the selection reads are usable: the bus clock is present, the
\* analog clock (if present) reports a nonzero rate, and the bus clock reports
\* a nonzero rate when no async entry fits
C5_ClocksUsable ==
    /\ clk_call.in.bclk
    /\ clk_call.in.aclk => clk_call.in.arate # 0
    /\ ~AsyncFits => clk_call.in.brate # 0

\* C5 (amended): the same preference rule, for the inputs in which the bus
\* clock is present and no clock the selection reads reports a zero rate.
C5_Amended == (clk_call.done /\ VariantB /\ C5_ClocksUsable) => C5_Preference

\* the example of the specification: analog 80 MHz, max 36 MHz
C5_Witness ==
    /\ clk_call.done /\ VariantB /\ C5_ClocksUsable
    /\ clk_call.in.aclk /\ clk_call.in.arate = 80000000
    /\ clk_call.in.max = 36000000
    /\ PlanIsAsync /\ clk_call.plan.div = 4 /\ common_rate = 20000000

NoDividerA ==
    /\ clk_call.in.aclk /\ clk_call.in.arate # 0
    /\ ~SomeFits(clk_call.in.arate, DividersA, clk_call.in.max)

MandatoryAbsent ==
    IF VariantA THEN ~clk_call.in.aclk ELSE ~clk_call.in.bclk

\* C26: a clock selection that fails, in either variant and for any reason
\* (an absent mandatory clock always fails it), returns a negative error and
\* leaves the control register and the published rate as they were before
\* the call, and no divider is chosen.
C26_FailureWritesNothing ==
    clk_call.done =>
        /\ MandatoryAbsent => clk_call.ret = -ENOENT
        /\ clk_call.ret # 0 =>
              /\ clk_call.ret \in {-ENOENT, -EINVAL}
              /\ ccr = clk_call.ccr0
              /\ common_rate = clk_call.rate0
              /\ clk_call.plan = NoPlan

\* C26 witness: in variant B no synchronous prescaler fits the bus clock and
\* there is no analog clock; the register with every bit set and the rate
\* published before are as they were.
C26_Witness ==
    /\ clk_call.done /\ VariantB
    /\ clk_call.ret = -EINVAL
    /\ clk_call.in.bclk /\ clk_call.in.brate # 0 /\ ~clk_call.in.aclk
    /\ ~SyncFits
    /\ clk_call.rate0 = 12345 /\ common_rate = 12345
    /\ clk_call.ccr0 = GENMASK(23, 0) /\ ccr = GENMASK(23, 0)

\* the analog clock of variant B is present and reports a rate of zero
ZeroAnalogB ==
    /\ VariantB
    /\ clk_call.in.bclk
    /\ clk_call.in.aclk /\ clk_call.in.arate = 0

\* C27: in variant B an analog clock that is present and reports zero fails
\* the selection with -EINVAL at once: the bus clock is not used, although it
\* may be present with a rate that a prescaler of 1, 2 or 4 brings under the
\* bound.
C27_ZeroAnalogNoFallback ==
    (clk_call.done /\ ZeroAnalogB) =>
        /\ clk_call.ret = -EINVAL
        /\ ~PlanIsSync
        /\ common_rate = clk_call.rate0

\* C27 witness: the analog clock reports zero, the bus clock reports 80 MHz,
\* which the prescaler 4 brings under the bound, and the selection failed.
C27_Witness ==
    /\ clk_call.done /\ ZeroAnalogB
    /\ clk_call.in.brate = 80000000
    /\ SyncFits
    /\ clk_call.ret = -EINVAL

\* bits hi..lo of a register value, as a number
Field(v, hi, lo) == (v \div (2 ^ lo)) % (2 ^ (hi - lo + 1))

\* a register value with bits hi..lo forced to 0
Outside(v, hi, lo) == v - Field(v, hi, lo) * (2 ^ lo)

\* C19: a successful clock selection leaves every bit of the control register
\* outside the clock fields as it was: Variant A changes only bits 17:16,
\* which hold the index of the chosen divider of {2,4,6,8}; Variant B changes
\* only bits 17:16 (CKMODE) and 21:18 (PRESC), which hold the chosen table
\* entry's values; the values fit in their fields, and a failed selection
\* does not write the register.
C19_ClockFieldsOnly ==
    clk_call.done =>
        /\ clk_call.ret # 0 => ccr = clk_call.ccr0
        /\ (clk_call.ret = 0 /\ cfg.variant = "stm32f4") =>
              /\ Outside(ccr, 17, 16) = Outside(clk_call.ccr0, 17, 16)
              /\ clk_call.plan.idx \in 0..3
              /\ Field(ccr, 17, 16) = clk_call.plan.idx
              /\ <<2, 4, 6, 8>>[clk_call.plan.idx + 1] = clk_call.plan.div
        /\ (clk_call.ret = 0 /\ cfg.variant # "stm32f4") =>
              /\ Outside(ccr, 21, 16) = Outside(clk_call.ccr0, 21, 16)
              /\ clk_call.plan.ckmode \in 0..3
              /\ clk_call.plan.presc \in 0..15
              /\ Field(ccr, 17, 16) = clk_call.plan.ckmode
              /\ Field(ccr, 21, 18) = clk_call.plan.presc

\* C19 witness: Variant B selected an asynchronous prescaler on a register
\* that had every bit set: the clock fields changed, the other bits are set.
C19_Witness ==
    /\ clk_call.done /\ clk_call.ret = 0
    /\ cfg.variant # "stm32f4"
    /\ clk_call.ccr0 = GENMASK(23, 0)
    /\ clk_call.plan.presc > 0
    /\ Field(ccr, 17, 16) = 0
    /\ ccr # clk_call.ccr0
    /\ Outside(ccr, 21, 16) = GENMASK(23, 22) + GENMASK(15, 0)

(***************************************************************************)
(* Interrupt dispatch claims (checked under SpecIrq).                      *)
(***************************************************************************)
\* the handler has made its six tests and is about to return
DispatchDone == h_pc = Len(irq_checks) + 1

Instances == 0..(STM32_ADC_MAX_ADCS - 1)

DeliveredSet == {delivered[k] : k \in 1..Len(delivered)}
DeliveryCount(l) == Cardinality({k \in 1..Len(delivered) : delivered[k] = l})

\* the virtual lines the handler looks up: regular of instance i, injected of i
RegularLine(i) == i
InjectedLine(i) == STM32_ADC_MAX_ADCS + i

RegularPending(i) ==
    BitAnd(h_status, regs_of(cfg.variant).eoc_msk[i + 1]) # 0
InjectedPending(i) ==
    BitAnd(h_status, regs_of(cfg.variant).jeoc_msk[i + 1]) # 0

\* C8: in one dispatch the regular line of instance i receives an event if and
\* only if the status snapshot has a bit of i's regular mask set and i's
\* enable bit was set when the handler read it; a snapshot holding only the
\* regular completion flag of instance 0, with that enable bit clear, gives no
\* delivery at all.
C8_RegularGating ==
    DispatchDone =>
        /\ \A i \in Instances :
              /\ (RegularLine(i) \in DeliveredSet) <=>
                    (RegularPending(i) /\ h_en[i] = 1)
              /\ DeliveryCount(RegularLine(i)) <= 1
              /\ RegularPending(i) <=> (h_en[i] # -1)
        /\ (h_status = EocFlag(cfg.variant, 0) /\ h_en[0] = 0) =>
              delivered = << >>

\* only EOC of instance 0 in the snapshot, enable bit clear: nothing delivered
C8_Witness ==
    /\ DispatchDone
    /\ h_status = EocFlag(cfg.variant, 0)
    /\ h_en[0] = 0
    /\ delivered = << >>

OnlyInjected1 == h_status = JeocFlag(cfg.variant, 1)

OnlyPair(i, kind) ==
    /\ DispatchDone
    /\ IF kind = 0
       THEN h_status = EocFlag(cfg.variant, i) /\ h_en[i] = 1
       ELSE h_status = JeocFlag(cfg.variant, i)
    /\ h_status # 0

InHandler == h_pc \in 1..(Len(irq_checks) + 1)

\* the flags of test k are set in the status value the handler read
SnapshotPending(k) ==
    BitAnd(h_status, irq_mask(regs_of(cfg.variant), irq_checks[k])) # 0

\* the decision of test k as the status value read and the enable bit give it
SnapshotDecision(k) ==
    /\ SnapshotPending(k)
    /\ irq_checks[k].kind = "eoc" => h_en[irq_checks[k].adc] = 1

\* the lines the tests made so far deliver to when decided on the snapshot
SnapshotDeliveries ==
    LET made == SelectSeq([k \in 1..(h_pc - 1) |-> k], SnapshotDecision)
    IN  [n \in 1..Len(made) |-> irq_checks[made[n]].hwirq]

\* C20: a dispatch reads the status register once, on entry: the value read
\* stays the handler's status until it returns, whatever happens to the
\* register meanwhile, and after each of the six tests the deliveries made
\* are those the value read gives (a regular test reading the enable bit iff
\* its flags are set in that value), not those of the register's new value.
C20_SingleSnapshot ==
    /\ [](InHandler =>
            /\ delivered = SnapshotDeliveries
            /\ \A k \in 1..(h_pc - 1) :
                  irq_checks[k].kind = "eoc" =>
                      (SnapshotPending(k) <=> h_en[irq_checks[k].adc] # -1))
    /\ [][(InHandler /\ h_pc' # 0) => h_status' = h_status]_vars

\* C20 witness: the status read held only the regular completion flag of
\* instance 0; afterwards the injected flag of instance 1 was raised and a
\* DMA read cleared the regular flag; the dispatch delivered to line 0 only.
C20_Witness ==
    /\ DispatchDone
    /\ h_status = EocFlag(cfg.variant, 0)
    /\ csr = JeocFlag(cfg.variant, 1)
    /\ delivered = <<0>>

\* every status bit one of the instance's masks tests
OwnBits(regs, i) == BitOr(regs.eoc_msk[i + 1], regs.jeoc_msk[i + 1])

\* the instance a virtual line belongs to
InstanceOf(l) == l % STM32_ADC_MAX_ADCS

\* C21: in the register model of either variant no status mask (regular or
\* injected) of one instance shares a bit with a status mask of another
\* instance, and so a dispatch delivers to a
\* line of an instance only when the status read has a bit of that instance's
\* own masks: a status whose bits all belong to one instance delivers to no
\* line of another.
C21_MasksDisjoint ==
    /\ \A i \in Instances : \A j \in Instances \ {i} :
          BitAnd(OwnBits(regs_of(cfg.variant), i),
                 OwnBits(regs_of(cfg.variant), j)) = 0
    /\ DispatchDone =>
          /\ \A l \in DeliveredSet :
                BitAnd(h_status, OwnBits(regs_of(cfg.variant), InstanceOf(l))) # 0
          /\ \A i \in Instances :
                BitClear(h_status, OwnBits(regs_of(cfg.variant), i)) = 0 =>
                    DeliveredSet \subseteq {i, i + STM32_ADC_MAX_ADCS}

\* C21 witness: the status read holds the regular and the injected completion
\* flag of instance 1 and nothing else, every enable bit is set, and the
\* dispatch delivered to lines 1 and 4 only.
C21_Witness ==
    /\ DispatchDone
    /\ h_status = EocFlag(cfg.variant, 1) + JeocFlag(cfg.variant, 1)
    /\ \A i \in Instances : ier[i]
    /\ delivered = <<1, 4>>

\* the analog watchdog flags of an instance
AwdFlags(variant, adc) ==
    IF variant = "stm32f4"
    THEN <<{STM32F4_AWD1}, {STM32F4_AWD2}, {STM32F4_AWD3}>>[adc + 1]
    ELSE <<{STM32H7_AWD1_MST, STM32H7_AWD2_MST, STM32H7_AWD3_MST},
           {STM32H7_AWD1_SLV, STM32H7_AWD2_SLV, STM32H7_AWD3_SLV},
           {}>>[adc + 1]

\* C24: the regular and the injected mask of an instance share exactly its
\* analog watchdog flags, and a dispatch whose status holds only one watchdog
\* flag of instance i delivers to the injected line of i whatever the enable
\* bit, and before that to the regular line of i when the enable bit is set:
\* two deliveries for one status bit, one when the enable bit is clear.
C24_WatchdogBoth ==
    \A i \in Instances :
        /\ BitAnd(regs_of(cfg.variant).eoc_msk[i + 1],
                  regs_of(cfg.variant).jeoc_msk[i + 1])
              = SumSet(AwdFlags(cfg.variant, i))
        /\ (DispatchDone /\ h_status \in AwdFlags(cfg.variant, i)) =>
              /\ h_en[i] \in {0, 1}
              /\ h_en[i] = 1 => delivered = <<i, i + STM32_ADC_MAX_ADCS>>
              /\ h_en[i] = 0 => delivered = <<i + STM32_ADC_MAX_ADCS>>

\* C24 witness: only a watchdog flag of instance 1 in the status read, the
\* enable bit of instance 1 set: lines 1 and 4 were both delivered to.
C24_Witness ==
    /\ DispatchDone
    /\ h_status \in AwdFlags(cfg.variant, 1)
    /\ h_en[1] = 1
    /\ delivered = <<1, 4>>

(***************************************************************************)
(* Claims on the handlers of several physical lines, checked under SpecMp. *)
(***************************************************************************)
\* how many times an invocation delivered to virtual line l
Hits(p, l) ==
    Cardinality({n \in 1..Len(mp.ctx[p].out) : mp.ctx[p].out[n] = l})

\* C25: the handler is chained on every physical line that was acquired, and
\* an invocation on any of them looks at every instance: each invocation whose
\* status read has the completion flag of an instance (its enable bit set)
\* delivers once to that instance's virtual line, whichever line it serves.
C25_EveryLineDispatchesAll ==
    /\ domain => \A p \in 0..2 : chained[p] <=> irq[p] >= 0
    /\ \A p \in 0..2 : mp.ctx[p].pc # 0 => chained[p]
    /\ \A p \in 0..2 : mp.ctx[p].ran =>
          \A i \in 0..2 :
              (BitAnd(mp.ctx[p].status, EocFlag(cfg.variant, i)) # 0 /\ ier[i])
                  => Hits(p, i) = 1

\* C25 witness: one conversion, of instance 2, completed; the handlers of
\* lines 0 and 1 both ran and both delivered to virtual line 2.
C25_Witness ==
    /\ mp.raised = 1
    /\ mp.ctx[0].ran /\ mp.ctx[1].ran
    /\ mp.ctx[0].out = <<2>>
    /\ mp.ctx[1].out = <<2>>

====
